---------------------------- MODULE Spec2Model ----------------------------
(***************************************************************************)
(* Data-quality scoring engine (EnterpriseDataAnalyzer), score aggregator, *)
(* task-type detection (ModelTrainer) and model recommendation             *)
(* (ModelRecommender) of the daqu backend.                                 *)
(*                                                                         *)
(* Numbers.  Percent scores are kept as integers in hundredths of a        *)
(* percent (10000 = 100.00), which is the resolution round(x, 2) leaves.   *)
(* Ratios are kept as numerator/denominator pairs and compared by cross    *)
(* multiplication; weights are kept in hundredths (25 = 0.25).             *)
(***************************************************************************)
EXTENDS Integers, Sequences, FiniteSets, TLC

VARIABLES
    df,        \* the dataset handed to the analyzer / recommender / trainer
    result,    \* what the last analyzer call returned
    clock,     \* datetime.now(), as a day number
    dims,      \* the seven Dimension Results the score aggregation works on
    request,     \* the target_column the recommender and the trainer are given
    recommender, \* the ModelRecommender built on df: its data_profile
    trainer,     \* the ModelTrainer built on df: its task_type
    reply,       \* what the last recommender / API call returned
    _temp_storage,  \* quality._temp_storage: the stored reports, by source id
    _conversations  \* assistant._conversations: the histories, by conversation id

vars == <<df, result, clock, dims, request, recommender, trainer, reply,
          _temp_storage, _conversations>>

(***************************************************************************)
(* Bounds of the model.                                                    *)
(***************************************************************************)
MaxRows == 3      \* rows of a dataset given cell by cell
MaxCols == 2      \* columns of a dataset
MaxCells == 6     \* cells of a dataset given cell by cell
MaxWide == 22     \* columns of a wide dataset of like columns
MaxDateCols == 4  \* columns of a dataset of date columns
StartDay == 1000  \* the day the clock shows at first
MaxElapsed == 1   \* days the clock may gain while reports are generated

(***************************************************************************)
(* Generic helpers.                                                        *)
(***************************************************************************)
NoResult == [dimension |-> "none"]
NoColumn == [stem |-> "", no |-> 0]
NoRequest == [target_column |-> NoColumn]
NoProfile == [task_type |-> "none"]
NoRecommender == [data_profile |-> NoProfile, raised |-> "none"]
NoTrainer == [task_type |-> "none", raised |-> "none"]
\* the module-level dicts when the server starts
NoStorage == <<>>
NoConversations == <<>>

NoReply == [type |-> "none"]

Min(a, b) == IF a <= b THEN a ELSE b
Max(a, b) == IF a >= b THEN a ELSE b

RECURSIVE SumSeq(_)
SumSeq(s) == IF s = <<>> THEN 0 ELSE Head(s) + SumSeq(Tail(s))

\* Python's round(n/d) to an integer: the nearest, a tie going to the even one.
RoundHalfEven(n, d) ==
    LET q == n \div d
        r == n % d
    IN  IF 2 * r < d THEN q
        ELSE IF 2 * r > d THEN q + 1
        ELSE IF q % 2 = 0 THEN q ELSE q + 1

\* round(ratio * 100, 2) of the ratio n/d, in hundredths of a percent.
RoundPct2(n, d) == RoundHalfEven(n * 10000, d)

\* column_completeness.sort(key=lambda x: x["completeness_ratio"]): Python's
\* sort is stable, modelled as an insertion sort that keeps equal keys in order.
RECURSIVE InsertByRatio(_, _)
InsertByRatio(x, s) ==
    IF s = <<>> THEN <<x>>
    ELSE IF x.completeness_ratio < Head(s).completeness_ratio THEN <<x>> \o s
    ELSE <<Head(s)>> \o InsertByRatio(x, Tail(s))

\* the list left in the order of the dataset's columns
KeepColumnOrder(s) == s

RECURSIVE SortByRatio(_)
SortByRatio(s) ==
    IF s = <<>> THEN <<>>
    ELSE InsertByRatio(s[Len(s)], SortByRatio(SubSeq(s, 1, Len(s) - 1)))

(***************************************************************************)
(* The dataset (a pandas DataFrame).  A column is a record with a name, a  *)
(* storage type and either its cells ("values", "NaN" the missing cell) or *)
(* the figures pandas reports for it.                                      *)
(***************************************************************************)
NaN == "NaN"
CellValues == {NaN, "a", "b"}

HasValues(col) == "values" \in DOMAIN col

\* len(self.df)
len_df(d) == d.nrows

\* self.df.size
size_df(d) == d.nrows * Len(d.columns)

\* self.df[col].notna().sum()
notna_sum(col) ==
    IF HasValues(col)
    THEN Cardinality({i \in 1..Len(col.values) : col.values[i] # NaN})
    ELSE col.notna

\* self.df[col].nunique(): the distinct values, missing cells left out
nunique(col) ==
    IF HasValues(col)
    THEN Cardinality({col.values[i] : i \in 1..Len(col.values)} \ {NaN})
    ELSE col.nunique

\* row i of the dataset, as the tuple of its cells
RowAt(d, i) == [c \in 1..Len(d.columns) |-> d.columns[c].values[i]]

\* self.df.duplicated().sum(): pandas walks the rows in order, keeps the set of
\* rows seen so far and marks a row that is already in it (missing cells
\* compare equal).
RECURSIVE duplicated_from(_, _, _)
duplicated_from(d, i, seen) ==
    IF i > d.nrows THEN 0
    ELSE IF RowAt(d, i) \in seen
         THEN 1 + duplicated_from(d, i + 1, seen)
         ELSE duplicated_from(d, i + 1, seen \cup {RowAt(d, i)})

\* duplicated(keep=False): every row that has a twin is marked, the first too
duplicated_sum_keep_false(d) ==
    IF "dup" \in DOMAIN d THEN d.dup
    ELSE Cardinality({i \in 1..d.nrows :
            \E j \in 1..d.nrows : j # i /\ RowAt(d, j) = RowAt(d, i)})

duplicated_sum(d) ==
    IF "dup" \in DOMAIN d THEN d.dup ELSE duplicated_from(d, 1, {})


(***************************************************************************)
(* EnterpriseDataAnalyzer.measure_completeness                             *)
(***************************************************************************)
\* "pass" if ratio >= 0.95 else "warning" if ratio >= 0.8 else "fail", for the
\* ratio n/d; a zero denominator makes the code's ratio 0.
completeness_status(n, d) ==
    IF d > 0 /\ n * 100 >= 95 * d THEN "pass"
    ELSE IF d > 0 /\ n * 100 >= 80 * d THEN "warning"
    ELSE "fail"

\* one entry of column_completeness
column_completeness_entry(d, col) ==
    LET non_null == notna_sum(col)
        total    == len_df(d)
    IN  [column             |-> col.name,
         non_null_count     |-> non_null,
         null_count         |-> total - non_null,
         completeness_ratio |-> IF total > 0 THEN RoundPct2(non_null, total) ELSE 0,
         status             |-> completeness_status(non_null, total)]

\* measure_completeness dividing by the row count instead of the cell count
measure_completeness_per_row(d) ==
    LET non_null_cells == SumSeq([c \in 1..Len(d.columns) |-> notna_sum(d.columns[c])])
    IN  [dimension      |-> "Completeness",
         score          |-> IF len_df(d) > 0
                            THEN RoundPct2(non_null_cells, len_df(d)) ELSE 0,
         total_cells    |-> size_df(d),
         non_null_cells |-> non_null_cells,
         null_cells     |-> size_df(d) - non_null_cells,
         columns_below_threshold |-> 0,
         column_details |-> <<>>,
         threshold      |-> 9500,
         status         |-> completeness_status(non_null_cells, size_df(d))]

measure_completeness(d) ==
    LET total_cells    == size_df(d)
        non_null_cells == SumSeq([c \in 1..Len(d.columns) |-> notna_sum(d.columns[c])])
        column_completeness ==
            SortByRatio([c \in 1..Len(d.columns) |->
                            column_completeness_entry(d, d.columns[c])])
    IN  [dimension      |-> "Completeness",
         score          |-> IF total_cells > 0
                            THEN RoundPct2(non_null_cells, total_cells) ELSE 0,
         total_cells    |-> total_cells,
         non_null_cells |-> non_null_cells,
         null_cells     |-> total_cells - non_null_cells,
         columns_below_threshold |->
             Len(SelectSeq(column_completeness, LAMBDA c : c.status = "fail")),
         column_details |-> column_completeness,
         threshold      |-> 9500,
         status         |-> completeness_status(non_null_cells, total_cells)]

(***************************************************************************)
(* EnterpriseDataAnalyzer.measure_uniqueness                               *)
(***************************************************************************)
\* one entry of column_uniqueness
\* the entry with the key flag decided on the cardinality ratio alone
column_uniqueness_entry_ratio_only(d, col) ==
    LET unique_values == nunique(col)
        total_values  == notna_sum(col)
    IN  [column            |-> col.name,
         unique_values     |-> unique_values,
         cardinality_ratio |-> IF total_values > 0
                               THEN RoundPct2(unique_values, total_values) ELSE 0,
         is_potential_key  |-> /\ total_values > 0
                               /\ unique_values * 100 > 95 * total_values]

column_uniqueness_entry(d, col) ==
    LET unique_values == nunique(col)
        total_values  == notna_sum(col)
    IN  [column            |-> col.name,
         unique_values     |-> unique_values,
         cardinality_ratio |-> IF total_values > 0
                               THEN RoundPct2(unique_values, total_values) ELSE 0,
         \* cardinality_ratio > 0.95 and total_values == len(self.df)
         is_potential_key  |-> /\ total_values > 0
                               /\ unique_values * 100 > 95 * total_values
                               /\ total_values = len_df(d)]

\* an exception leaving a measurer instead of a Dimension Result
Raised(where, error) == [dimension |-> "raised", where |-> where, error |-> error]

\* measure_uniqueness dividing by total_rows without the `if total_rows > 0`
measure_uniqueness_unguarded(d) ==
    IF len_df(d) = 0 THEN Raised("measure_uniqueness", "ZeroDivisionError")
    ELSE [dimension      |-> "Uniqueness",
          score          |-> RoundPct2(len_df(d) - duplicated_sum(d), len_df(d)),
          total_rows     |-> len_df(d),
          unique_rows    |-> len_df(d) - duplicated_sum(d),
          duplicate_rows |-> duplicated_sum(d),
          duplicate_percentage |-> RoundPct2(duplicated_sum(d), len_df(d)),
          column_cardinality    |-> <<>>,
          potential_key_columns |-> <<>>,
          threshold      |-> 9500,
          status         |-> "pass"]

measure_uniqueness(d) ==
    LET total_rows     == len_df(d)
        duplicate_rows == duplicated_sum(d)
        unique_rows    == total_rows - duplicate_rows
        column_uniqueness ==
            [c \in 1..Len(d.columns) |-> column_uniqueness_entry(d, d.columns[c])]
        keys == SelectSeq(column_uniqueness, LAMBDA c : c.is_potential_key)
    IN  [dimension      |-> "Uniqueness",
         score          |-> IF total_rows > 0
                            THEN RoundPct2(unique_rows, total_rows) ELSE 0,
         total_rows     |-> total_rows,
         unique_rows    |-> unique_rows,
         duplicate_rows |-> duplicate_rows,
         duplicate_percentage |-> IF total_rows > 0
                                  THEN RoundPct2(duplicate_rows, total_rows) ELSE 0,
         column_cardinality    |-> column_uniqueness,
         potential_key_columns |-> [i \in 1..Len(keys) |-> keys[i].column],
         threshold      |-> 9500,
         status         |-> IF total_rows > 0 /\ unique_rows * 100 >= 95 * total_rows
                            THEN "pass"
                            ELSE IF total_rows > 0 /\ unique_rows * 100 >= 90 * total_rows
                            THEN "warning" ELSE "fail"]


(***************************************************************************)
(* Column classification (EnterpriseDataAnalyzer.__init__) and column      *)
(* names.  A name is a stem and the column's position; the keywords a stem *)
(* contains are what `kw in col.lower()` finds in it.                      *)
(***************************************************************************)
KeywordsIn(name) ==
    CASE name.stem = "age"          -> {"age"}
      [] name.stem = "price"        -> {"price"}
      [] name.stem = "email"        -> {"email"}
      [] name.stem = "phone"        -> {"phone"}
      [] name.stem = "mobile_email" -> {"mobile", "email"}
      [] name.stem = "created_date" -> {"created", "date"}
      [] name.stem = "timestamp"    -> {"time", "timestamp"}
      [] OTHER                      -> {}

\* any(kw in col.lower() for kw in kws)
name_has_any(name, kws) == KeywordsIn(name) \cap kws # {}

\* df.select_dtypes(include=[np.number])
is_numeric(col) == col.dtype \in {"int64", "float64"}
\* df.select_dtypes(include=['object', 'category'])
is_categorical(col) == col.dtype \in {"object", "category"}
\* df.select_dtypes(include=['datetime64'])
is_datetime(col) == col.dtype = "datetime64"
\* df.select_dtypes(include=['bool'])
is_boolean(col) == col.dtype = "bool"

numeric_cols(d) == SelectSeq(d.columns, is_numeric)
categorical_cols(d) == SelectSeq(d.columns, is_categorical)
datetime_cols(d) == SelectSeq(d.columns, is_datetime)
boolean_cols(d) == SelectSeq(d.columns, is_boolean)

\* a figure pandas computes from a column's cells; a column given by its
\* cells from CellValues holds none of the patterns, so the figure is dflt
Figure(col, f, dflt) == IF f \in DOMAIN col THEN col[f] ELSE dflt

RECURSIVE Concat(_)
Concat(ss) == IF ss = <<>> THEN <<>> ELSE Head(ss) \o Concat(Tail(ss))

(***************************************************************************)
(* EnterpriseDataAnalyzer.measure_validity                                 *)
(***************************************************************************)
\* an issue message f"{count} {what}"
Issue(count, what) == [count |-> count, what |-> what]

\* the checks of one numeric column: [total, passed, issues]
validity_numeric(col) ==
    LET inf_count == IF col.dtype \in {"float64", "float32"}
                     THEN Figure(col, "inf_count", 0) ELSE 0
        neg_count == Figure(col, "neg_count", 0)
        positive  == name_has_any(col.name,
                        {"age", "price", "amount", "quantity", "count", "size"})
        inf_bad   == inf_count > 0
        neg_bad   == positive /\ neg_count > 0
    IN  [total  |-> 2,
         passed |-> (IF inf_bad THEN 0 ELSE 1) + (IF neg_bad THEN 0 ELSE 1),
         issues |-> (IF inf_bad THEN <<Issue(inf_count, "infinite values detected")>>
                     ELSE <<>>)
                    \o (IF neg_bad THEN <<Issue(neg_count, "unexpected negative values")>>
                        ELSE <<>>)]

\* validity_categorical counting the email check as passed whatever it finds
validity_categorical_email_passes(col) ==
    LET whitespace_count == Figure(col, "whitespace_only", 0)
        invalid_emails   == Figure(col, "invalid_emails", 0)
        invalid_phones   == Figure(col, "invalid_phones", 0)
        is_email == "email" \in KeywordsIn(col.name)
        is_phone == name_has_any(col.name, {"phone", "mobile"})
    IN  [total  |-> 1 + (IF is_email THEN 1 ELSE 0) + (IF is_phone THEN 1 ELSE 0),
         passed |-> (IF whitespace_count > 0 THEN 0 ELSE 1)
                    + (IF is_email THEN 1 ELSE 0)
                    + (IF is_phone /\ invalid_phones = 0 THEN 1 ELSE 0),
         issues |-> (IF whitespace_count > 0
                     THEN <<Issue(whitespace_count, "whitespace-only values")>> ELSE <<>>)
                    \o (IF is_email /\ invalid_emails > 0
                        THEN <<Issue(invalid_emails, "invalid email formats")>> ELSE <<>>)
                    \o (IF is_phone /\ invalid_phones > 0
                        THEN <<Issue(invalid_phones, "potentially invalid phone numbers")>>
                        ELSE <<>>)]

\* the checks of one categorical column: [total, passed, issues]
validity_categorical(col) ==
    LET whitespace_count == Figure(col, "whitespace_only", 0)
        invalid_emails   == Figure(col, "invalid_emails", 0)
        invalid_phones   == Figure(col, "invalid_phones", 0)
        is_email == "email" \in KeywordsIn(col.name)
        is_phone == name_has_any(col.name, {"phone", "mobile"})
        ws_bad    == whitespace_count > 0
        email_bad == is_email /\ invalid_emails > 0
        phone_bad == is_phone /\ invalid_phones > 0
    IN  [total  |-> 1 + (IF is_email THEN 1 ELSE 0) + (IF is_phone THEN 1 ELSE 0),
         passed |-> (IF ws_bad THEN 0 ELSE 1)
                    + (IF is_email /\ ~email_bad THEN 1 ELSE 0)
                    + (IF is_phone /\ ~phone_bad THEN 1 ELSE 0),
         issues |-> (IF ws_bad THEN <<Issue(whitespace_count, "whitespace-only values")>>
                     ELSE <<>>)
                    \o (IF email_bad THEN <<Issue(invalid_emails, "invalid email formats")>>
                        ELSE <<>>)
                    \o (IF phone_bad
                        THEN <<Issue(invalid_phones, "potentially invalid phone numbers")>>
                        ELSE <<>>)]

\* one pass of the loop over self.df.columns
validity_column(col) ==
    IF notna_sum(col) = 0 THEN [total |-> 0, passed |-> 0, issues |-> <<>>]
    ELSE IF is_numeric(col) THEN validity_numeric(col)
    ELSE IF is_categorical(col) THEN validity_categorical(col)
    ELSE [total |-> 0, passed |-> 0, issues |-> <<>>]

validity_issue_entry(col) ==
    LET issues == validity_column(col).issues
    IN  IF issues = <<>> THEN <<>>
        ELSE <<[column   |-> col.name,
                dtype    |-> col.dtype,
                issues   |-> issues,
                severity |-> IF Len(issues) > 1 THEN "high" ELSE "medium"]>>

measure_validity(d) ==
    LET per_col == [c \in 1..Len(d.columns) |-> validity_column(d.columns[c])]
        total_checks  == SumSeq([c \in 1..Len(per_col) |-> per_col[c].total])
        passed_checks == SumSeq([c \in 1..Len(per_col) |-> per_col[c].passed])
    IN  [dimension     |-> "Validity",
         score         |-> IF total_checks > 0
                           THEN RoundPct2(passed_checks, total_checks) ELSE 10000,
         total_checks  |-> total_checks,
         passed_checks |-> passed_checks,
         failed_checks |-> total_checks - passed_checks,
         issues        |-> Concat([c \in 1..Len(d.columns) |->
                                      validity_issue_entry(d.columns[c])]),
         threshold     |-> 9000,
         status        |-> IF total_checks = 0
                              \/ passed_checks * 100 >= 90 * total_checks THEN "pass"
                           ELSE IF passed_checks * 100 >= 75 * total_checks
                           THEN "warning" ELSE "fail"]


(***************************************************************************)
(* EnterpriseDataAnalyzer.measure_consistency                              *)
(***************************************************************************)
ConsistencyIssue(col, issue, impact) ==
    [column |-> col.name, issue |-> issue, impact |-> impact]

\* col_data.unique(): the distinct values of a column, missing cells left out
unique_values(col) ==
    IF HasValues(col) THEN {col.values[i] : i \in 1..Len(col.values)} \ {NaN}
    ELSE Figure(col, "uniques", {})

\* str(v).lower()
Lower(v) ==
    CASE v \in {"Yes", "yes", "YES"} -> "yes"
      [] v \in {"No", "no"}          -> "no"
      [] OTHER                       -> v

\* the keys of lower_values = {str(v).lower(): v for v in unique_values}
lower_values(col) == {Lower(v) : v \in unique_values(col)}

\* the first loop penalising every pair of values that differ by case only
consistency_case_whitespace_per_pair(col) ==
    LET pairs == {p \in SUBSET unique_values(col) :
                    /\ Cardinality(p) = 2
                    /\ Cardinality({Lower(v) : v \in p}) = 1}
    IN  IF notna_sum(col) = 0 THEN <<>>
        ELSE [i \in 1..Cardinality(pairs) |->
                 ConsistencyIssue(col, "Case inconsistency detected", -2)]
             \o (IF Figure(col, "edge_whitespace", FALSE)
                 THEN <<ConsistencyIssue(col, "Whitespace inconsistency", -1)>>
                 ELSE <<>>)

\* first loop: case and whitespace inconsistencies of one categorical column
consistency_case_whitespace(col) ==
    IF notna_sum(col) = 0 THEN <<>>
    ELSE (IF Cardinality(lower_values(col)) < Cardinality(unique_values(col))
          THEN <<ConsistencyIssue(col, "Case inconsistency detected", -2)>>
          ELSE <<>>)
         \o (IF Figure(col, "edge_whitespace", FALSE)
             THEN <<ConsistencyIssue(col, "Whitespace inconsistency", -1)>>
             ELSE <<>>)

\* second loop: a date-named categorical column that pd.to_datetime rejects
consistency_date_format(col) ==
    IF /\ name_has_any(col.name, {"date", "time", "timestamp", "created", "updated"})
       /\ notna_sum(col) > 0
       /\ Figure(col, "date_parse_fails", FALSE)
    THEN <<ConsistencyIssue(col, "Date format inconsistency", -5)>>
    ELSE <<>>

\* third loop: more than 1% of a numeric column beyond the 3 x IQR fences
consistency_range(col) ==
    LET n       == notna_sum(col)
        extreme == Figure(col, "extreme", 0)
    IN  IF n > 10 /\ extreme * 100 > n
        THEN <<ConsistencyIssue(col, "Range inconsistency", -3)>>
        ELSE <<>>

\* every issue lowering the score by 2
consistency_decrement_uniform(issue) == 2

\* the amount of the `consistency_score -= ...` statement that follows the
\* append of an issue
consistency_decrement(issue) ==
    CASE issue.issue = "Case inconsistency detected" -> 2
      [] issue.issue = "Whitespace inconsistency"    -> 1
      [] issue.issue = "Date format inconsistency"   -> 5
      [] issue.issue = "Range inconsistency"         -> 3

measure_consistency(d) ==
    LET cat == categorical_cols(d)
        num == numeric_cols(d)
        consistency_issues ==
            Concat([c \in 1..Len(cat) |-> consistency_case_whitespace(cat[c])])
            \o Concat([c \in 1..Len(cat) |-> consistency_date_format(cat[c])])
            \o Concat([c \in 1..Len(num) |-> consistency_range(num[c])])
        consistency_score ==
            100 - SumSeq([i \in 1..Len(consistency_issues) |->
                             consistency_decrement(consistency_issues[i])])
    IN  [dimension    |-> "Consistency",
         score        |-> Max(0, consistency_score * 100),
         issues_found |-> Len(consistency_issues),
         issues       |-> consistency_issues,
         threshold    |-> 8500,
         status       |-> IF consistency_score >= 85 THEN "pass"
                          ELSE IF consistency_score >= 70 THEN "warning" ELSE "fail"]

(***************************************************************************)
(* EnterpriseDataAnalyzer.measure_accuracy                                 *)
(* (the descriptive statistics of an entry do not bear on score or status  *)
(* and are not carried)                                                    *)
(***************************************************************************)
\* the score change with the 5% and 2% boundaries taken as inclusive
accuracy_penalty_inclusive(outliers, n) ==
    IF outliers * 100 >= 5 * n THEN 5
    ELSE IF outliers * 100 >= 2 * n THEN 2
    ELSE 0

\* the score change of one numeric column with at least 10 values
accuracy_penalty(outliers, n) ==
    IF outliers * 100 > 5 * n THEN 5
    ELSE IF outliers * 100 > 2 * n THEN 2
    ELSE 0

accuracy_entry(col) ==
    LET n        == notna_sum(col)
        outliers == Figure(col, "outliers", 0)
    IN  [column             |-> col.name,
         outlier_count      |-> outliers,
         outlier_percentage |-> RoundPct2(outliers, n),
         status             |-> IF outliers * 100 <= 2 * n THEN "pass"
                                ELSE IF outliers * 100 <= 5 * n THEN "warning"
                                ELSE "fail"]

\* measure_accuracy without the floor max(0, ...)
measure_accuracy_unfloored(d) ==
    LET analysed == SelectSeq(numeric_cols(d), LAMBDA col : notna_sum(col) >= 10)
        accuracy_score ==
            100 - SumSeq([c \in 1..Len(analysed) |->
                    accuracy_penalty(Figure(analysed[c], "outliers", 0),
                                     notna_sum(analysed[c]))])
    IN  [dimension        |-> "Accuracy",
         score            |-> accuracy_score * 100,
         outlier_analysis |-> [c \in 1..Len(analysed) |-> accuracy_entry(analysed[c])],
         threshold        |-> 8500,
         status           |-> IF accuracy_score >= 85 THEN "pass"
                              ELSE IF accuracy_score >= 70 THEN "warning" ELSE "fail"]

measure_accuracy(d) ==
    LET analysed == SelectSeq(numeric_cols(d), LAMBDA col : notna_sum(col) >= 10)
        accuracy_score ==
            100 - SumSeq([c \in 1..Len(analysed) |->
                    accuracy_penalty(Figure(analysed[c], "outliers", 0),
                                     notna_sum(analysed[c]))])
    IN  [dimension        |-> "Accuracy",
         score            |-> Max(0, accuracy_score * 100),
         outlier_analysis |-> [c \in 1..Len(analysed) |-> accuracy_entry(analysed[c])],
         threshold        |-> 8500,
         status           |-> IF accuracy_score >= 85 THEN "pass"
                              ELSE IF accuracy_score >= 70 THEN "warning" ELSE "fail"]


(***************************************************************************)
(* EnterpriseDataAnalyzer.measure_timeliness                               *)
(* Dates are day numbers; now is datetime.now() as a day number.  The      *)
(* Timeliness score is the only one that may be None: it is kept as <<>>   *)
(* (None) or <<v>>.                                                        *)
(***************************************************************************)
None == <<>>
Some(v) == <<v>>
ValueOf(opt) == opt[1]

\* a categorical column joins date_cols when its name has a date keyword and
\* pd.to_datetime(..., errors='coerce') parses more than half of the rows
parses_as_dates(d, col) ==
    /\ name_has_any(col.name, {"date", "time", "created", "updated", "timestamp"})
    /\ Figure(col, "parsed_dates", 0) * 2 > len_df(d)

date_cols(d) ==
    datetime_cols(d)
    \o SelectSeq(categorical_cols(d), LAMBDA col : parses_as_dates(d, col))

\* len(valid_dates) of a date column
valid_dates(col) ==
    IF is_datetime(col) THEN notna_sum(col) ELSE Figure(col, "parsed_dates", 0)

\* (now - max_date).days
days_old_of(col, now) == now - Figure(col, "latest", 0)

\* "current" if days_old and days_old < 30 else "recent" if days_old and
\* days_old < 90 else "stale": a days_old of 0 is falsy in Python
freshness(days_old) ==
    IF days_old # 0 /\ days_old < 30 THEN "current"
    ELSE IF days_old # 0 /\ days_old < 90 THEN "recent"
    ELSE "stale"

timeliness_penalty(days_old) ==
    IF days_old # 0 /\ days_old > 365 THEN 20
    ELSE IF days_old # 0 /\ days_old > 90 THEN 10
    ELSE 0

timeliness_entry(col, now) ==
    [column            |-> col.name,
     days_since_latest |-> days_old_of(col, now),
     freshness         |-> freshness(days_old_of(col, now))]

\* measure_timeliness analysing every date column instead of date_cols[:3]
measure_timeliness_uncapped(d, now) ==
    LET found    == date_cols(d)
        analysed == SelectSeq(found, LAMBDA col : valid_dates(col) > 0)
        timeliness_score ==
            100 - SumSeq([c \in 1..Len(analysed) |->
                            timeliness_penalty(days_old_of(analysed[c], now))])
    IN  IF Len(found) = 0
        THEN [dimension |-> "Timeliness",
              datetime_columns_found |-> Len(datetime_cols(d)),
              analysis  |-> <<>>,
              score     |-> None,
              status    |-> "unknown"]
        ELSE [dimension |-> "Timeliness",
              datetime_columns_found |-> Len(datetime_cols(d)),
              analysis  |-> [c \in 1..Len(analysed) |->
                                timeliness_entry(analysed[c], now)],
              score     |-> Some(Max(0, timeliness_score * 100)),
              threshold |-> 8000,
              status    |-> IF timeliness_score >= 80 THEN "pass"
                            ELSE IF timeliness_score >= 60 THEN "warning"
                            ELSE "fail"]

measure_timeliness(d, now) ==
    LET found    == date_cols(d)
        first3   == SubSeq(found, 1, Min(3, Len(found)))
        analysed == SelectSeq(first3, LAMBDA col : valid_dates(col) > 0)
        timeliness_score ==
            100 - SumSeq([c \in 1..Len(analysed) |->
                            timeliness_penalty(days_old_of(analysed[c], now))])
    IN  IF Len(found) = 0
        THEN [dimension |-> "Timeliness",
              datetime_columns_found |-> Len(datetime_cols(d)),
              analysis  |-> <<>>,
              score     |-> None,
              status    |-> "unknown"]
        ELSE [dimension |-> "Timeliness",
              datetime_columns_found |-> Len(datetime_cols(d)),
              analysis  |-> [c \in 1..Len(analysed) |->
                                timeliness_entry(analysed[c], now)],
              score     |-> Some(Max(0, timeliness_score * 100)),
              threshold |-> 8000,
              status    |-> IF timeliness_score >= 80 THEN "pass"
                            ELSE IF timeliness_score >= 60 THEN "warning"
                            ELSE "fail"]

(***************************************************************************)
(* EnterpriseDataAnalyzer.measure_ml_readiness                             *)
(* Correlations are in hundred-thousandths, variances in thousandths.      *)
(***************************************************************************)
Abs(x) == IF x < 0 THEN -x ELSE x

\* corr_matrix.iloc[i, j] of self.df[self.numeric_cols].corr()
corr_at(d, i, j) ==
    IF "corr" \in DOMAIN d /\ <<i, j>> \in DOMAIN d.corr THEN d.corr[<<i, j>>] ELSE 0

\* the pairs (i, j), i < j, in the order of the nested loops
pairs_upto(n) == Concat([i \in 1..(n - 1) |-> [k \in 1..(n - i) |-> <<i, i + k>>]])

\* round(float(corr_val), 4), in ten-thousandths
round_corr(corr_val) ==
    IF corr_val < 0 THEN -RoundHalfEven(-corr_val, 10) ELSE RoundHalfEven(corr_val, 10)

\* the reported pairs with the multicollinearity tag given above 0.9 only
high_correlations_strict_tag(d) ==
    LET num   == numeric_cols(d)
        pairs == IF Len(num) >= 2 THEN pairs_upto(Len(num)) ELSE <<>>
        high  == SelectSeq(pairs, LAMBDA p : Abs(corr_at(d, p[1], p[2])) >= 70000)
    IN  [k \in 1..Len(high) |->
            [column1     |-> num[high[k][1]].name,
             column2     |-> num[high[k][2]].name,
             correlation |-> round_corr(corr_at(d, high[k][1], high[k][2])),
             risk        |-> IF Abs(corr_at(d, high[k][1], high[k][2])) > 90000
                             THEN "multicollinearity" ELSE "high_correlation"]]

high_correlations(d) ==
    LET num   == numeric_cols(d)
        pairs == IF Len(num) >= 2 THEN pairs_upto(Len(num)) ELSE <<>>
        high  == SelectSeq(pairs, LAMBDA p : Abs(corr_at(d, p[1], p[2])) >= 70000)
    IN  [k \in 1..Len(high) |->
            [column1     |-> num[high[k][1]].name,
             column2     |-> num[high[k][2]].name,
             correlation |-> round_corr(corr_at(d, high[k][1], high[k][2])),
             risk        |-> IF Abs(corr_at(d, high[k][1], high[k][2])) >= 90000
                             THEN "multicollinearity" ELSE "high_correlation"]]

\* value_counts(normalize=True).max() / .min() against 3 and 10, the shares
\* compared through the class counts; a zero minimum makes the ratio infinite
balance_status(class_max, class_min) ==
    IF class_min > 0 /\ class_max < 3 * class_min THEN "balanced"
    ELSE IF class_min > 0 /\ class_max < 10 * class_min THEN "imbalanced"
    ELSE "severely_imbalanced"

class_balance_analysis(d) ==
    LET cand == SelectSeq(categorical_cols(d),
                          LAMBDA col : 2 <= nunique(col) /\ nunique(col) <= 20)
    IN  [c \in 1..Len(cand) |->
            [column      |-> cand[c].name,
             num_classes |-> nunique(cand[c]),
             status      |-> balance_status(Figure(cand[c], "class_max", 1),
                                            Figure(cand[c], "class_min", 1))]]

low_variance_features(d) ==
    LET low == SelectSeq(numeric_cols(d),
                         LAMBDA col : Figure(col, "variance", 1000) < 10)
    IN  [c \in 1..Len(low) |-> [column |-> low[c].name,
                                variance |-> Figure(low[c], "variance", 1000)]]

measure_ml_readiness(d) ==
    LET correlations  == high_correlations(d)
        class_balance == class_balance_analysis(d)
        low_variance  == low_variance_features(d)
        score == 100 - Len(correlations) * 3 - Len(low_variance) * 5
                 - Len(SelectSeq(class_balance,
                       LAMBDA c : c.status = "severely_imbalanced")) * 10
    IN  [dimension              |-> "ML Readiness",
         high_correlations      |-> correlations,
         multicollinearity_risk |->
             Len(SelectSeq(correlations, LAMBDA c : c.risk = "multicollinearity")),
         class_balance_analysis |-> class_balance,
         low_variance_features  |-> low_variance,
         score                  |-> Max(0, score * 100),
         status                 |-> IF score >= 80 THEN "ready"
                                    ELSE IF score >= 60 THEN "needs_improvement"
                                    ELSE "not_ready"]


(***************************************************************************)
(* EnterpriseDataAnalyzer.calculate_overall_score                          *)
(* Weights are in hundredths, so overall_score, a sum of weight x score    *)
(* products, is in ten-thousandths of a percent (900000 = 90.0).           *)
(***************************************************************************)
\* the seven measurer calls that open calculate_overall_score
measure_all(d, now) ==
    [completeness |-> measure_completeness(d),
     uniqueness   |-> measure_uniqueness(d),
     validity     |-> measure_validity(d),
     consistency  |-> measure_consistency(d),
     accuracy     |-> measure_accuracy(d),
     timeliness   |-> measure_timeliness(d, now),
     ml_readiness |-> measure_ml_readiness(d)]

\* the keys of weights, in the order of the dict literal
DimensionOrder ==
    <<"completeness", "uniqueness", "validity", "consistency", "accuracy", "timeliness">>

base_weights ==
    [completeness |-> 25, uniqueness |-> 15, validity |-> 15,
     consistency  |-> 15, accuracy   |-> 20, timeliness |-> 10]

\* weights after the `if timeliness.get("score") is not None ... else` step
\* the timeliness weight dropped without redistributing it
applied_weights_not_redistributed(m) ==
    IF m.timeliness.score # None THEN base_weights
    ELSE [k \in DOMAIN base_weights |-> IF k = "timeliness" THEN 0 ELSE base_weights[k]]

applied_weights(m) ==
    IF m.timeliness.score # None THEN base_weights
    ELSE [k \in DOMAIN base_weights |->
             IF k = "timeliness" THEN 0 ELSE base_weights[k] + (10 \div 5)]

\* the keys of scores: timeliness is a key only when its score is not None
score_keys(m) ==
    IF m.timeliness.score # None THEN DimensionOrder
    ELSE SelectSeq(DimensionOrder, LAMBDA k : k # "timeliness")

\* scores[k]
score_of(m, k) == IF k = "timeliness" THEN ValueOf(m.timeliness.score) ELSE m[k].score

\* overall_score = sum(scores[k] * weights[k] for k in scores)
overall_score_of(m) ==
    LET keys == score_keys(m)
    IN  SumSeq([i \in 1..Len(keys) |-> score_of(m, keys[i]) * applied_weights(m)[keys[i]]])

\* the grade boundaries taken as strict
grade_of_strict(overall_score) ==
    IF overall_score > 900000 THEN "A"
    ELSE IF overall_score > 800000 THEN "B"
    ELSE IF overall_score > 700000 THEN "C"
    ELSE IF overall_score > 600000 THEN "D"
    ELSE "F"

grade_of(overall_score) ==
    IF overall_score >= 900000 THEN "A"
    ELSE IF overall_score >= 800000 THEN "B"
    ELSE IF overall_score >= 700000 THEN "C"
    ELSE IF overall_score >= 600000 THEN "D"
    ELSE "F"

grade_description_of(overall_score) ==
    IF overall_score >= 900000 THEN "Excellent - Production Ready"
    ELSE IF overall_score >= 800000 THEN "Good - Minor Improvements Needed"
    ELSE IF overall_score >= 700000 THEN "Fair - Several Issues to Address"
    ELSE IF overall_score >= 600000 THEN "Poor - Significant Work Required"
    ELSE "Failing - Major Quality Issues"

\* the returned block; overall_score and dimension_scores are rounded to one
\* decimal (tenths of a percent)
quality_score(m) ==
    LET keys == score_keys(m)
    IN  [dimension           |-> "Overall",
         overall_score       |-> RoundHalfEven(overall_score_of(m), 1000),
         grade               |-> grade_of(overall_score_of(m)),
         grade_description   |-> grade_description_of(overall_score_of(m)),
         dimension_scores    |-> [i \in 1..Len(keys) |->
                                     [key   |-> keys[i],
                                      score |-> RoundHalfEven(score_of(m, keys[i]), 10)]],
         weights             |-> applied_weights(m),
         ml_readiness_score  |-> m.ml_readiness.score,
         ml_readiness_status |-> m.ml_readiness.status]

calculate_overall_score(d, now) == quality_score(measure_all(d, now))


(***************************************************************************)
(* EnterpriseDataAnalyzer.generate_full_report and the parts it gathers.   *)
(* The descriptive statistics and value distributions of a column profile  *)
(* and the sample rows are not carried.                                    *)
(***************************************************************************)
get_dataset_overview(d) ==
    [rows         |-> len_df(d),
     columns      |-> Len(d.columns),
     column_types |-> [numeric     |-> Len(numeric_cols(d)),
                       categorical |-> Len(categorical_cols(d)),
                       datetime    |-> Len(datetime_cols(d)),
                       boolean     |-> Len(boolean_cols(d))],
     column_names |-> [c \in 1..Len(d.columns) |-> d.columns[c].name]]

\* col_data.nunique() / len(col_data) is an int by an int: the first column
\* of a dataset without rows raises ZeroDivisionError
get_column_profiles_raises(d) == Len(d.columns) > 0 /\ len_df(d) = 0

\* one profile of get_column_profiles, on a dataset with rows
column_profile(d, col) ==
    [name              |-> col.name,
     dtype             |-> col.dtype,
     non_null_count    |-> notna_sum(col),
     null_count        |-> len_df(d) - notna_sum(col),
     null_percentage   |-> RoundPct2(len_df(d) - notna_sum(col), len_df(d)),
     unique_count      |-> nunique(col),
     unique_percentage |-> RoundPct2(nunique(col), len_df(d)),
     is_numeric        |-> is_numeric(col)]

get_column_profiles(d) == [c \in 1..Len(d.columns) |-> column_profile(d, d.columns[c])]

\* the report, its entries evaluated in the order of the dict literal; an
\* exception of one entry leaves generate_full_report.  The measurers run
\* twice: within calculate_overall_score, where measure_timeliness reads the
\* time now, and again for the report's own entries, where it reads later.
generate_full_report(d, now, later) ==
    IF get_column_profiles_raises(d)
    THEN Raised("generate_full_report", "ZeroDivisionError")
    ELSE [dimension       |-> "Report",
          status          |-> "success",
          overview        |-> get_dataset_overview(d),
          quality_score   |-> calculate_overall_score(d, now),
          completeness    |-> measure_completeness(d),
          uniqueness      |-> measure_uniqueness(d),
          validity        |-> measure_validity(d),
          consistency     |-> measure_consistency(d),
          accuracy        |-> measure_accuracy(d),
          timeliness      |-> measure_timeliness(d, later),
          ml_readiness    |-> measure_ml_readiness(d),
          column_profiles |-> get_column_profiles(d)]

(***************************************************************************)
(* The datasets analysed.  TableFrames are given cell by cell; the other   *)
(* families are given by the figures pandas reports for their columns,     *)
(* each family varying the figures one measurer reads.                     *)
(***************************************************************************)
\* a column's name, storage type and counts; its figures are merged in with @@
Col(stem, dtype, notna, uniq) ==
    [name |-> [stem |-> stem, no |-> 0], dtype |-> dtype, notna |-> notna, nunique |-> uniq]

\* the columns numbered by position
Numbered(cols) == [i \in 1..Len(cols) |-> [cols[i] EXCEPT !.name.no = i]]

\* all sequences over S of length 0..n
SeqsUpTo(S, n) == UNION {[1..k -> S] : k \in 0..n}

\* datasets of up to MaxCols columns drawn from the column set cols
FramesOver(rows, cols) ==
    {[nrows |-> rows, columns |-> Numbered(cs), dup |-> 0] : cs \in SeqsUpTo(cols, MaxCols)}

\* wide datasets: k like columns
WideOver(rows, cols) ==
    {[nrows |-> rows, columns |-> Numbered([i \in 1..k |-> c]), dup |-> 0] :
        c \in cols, k \in (MaxCols + 1)..MaxWide}

\* the datasets of r rows and k columns, every cell drawn from CellValues
TablesOf(r, k) ==
    {[nrows |-> r, columns |-> [c \in 1..k |->
        [name |-> [stem |-> "col", no |-> c], dtype |-> "object", values |-> t[c]]]] :
        t \in [1..k -> [1..r -> CellValues]]}

\* a dataset without columns has no rows (what read_csv / read_json produce)
TableShapes ==
    {<<0, k>> : k \in 0..MaxCols}
    \cup {sh \in (1..MaxRows) \X (1..MaxCols) : sh[1] * sh[2] <= MaxCells}

TableFrames == UNION {TablesOf(sh[1], sh[2]) : sh \in TableShapes}

\* figures measure_validity reads
ValidityCols ==
    {Col("age", "int64", 100, 50) @@ [neg_count |-> n] : n \in {0, 2}}
    \cup {Col("price", "float64", 100, 50) @@ [inf_count |-> i, neg_count |-> n] :
        i \in {0, 1}, n \in {0, 2}}
    \cup {Col("x", "float64", 100, 50) @@ [inf_count |-> 1, neg_count |-> 2]}
    \cup {Col("x", "object", 100, 50) @@ [whitespace_only |-> w] : w \in {0, 3}}
    \cup {Col("email", "object", 100, 50) @@ [whitespace_only |-> w, invalid_emails |-> e] :
        w \in {0, 3}, e \in {0, 1}}
    \cup {Col("phone", "category", 100, 50) @@ [invalid_phones |-> f] : f \in {0, 1}}
    \cup {Col("mobile_email", "object", 100, 50)
            @@ [invalid_emails |-> 2, invalid_phones |-> 4],
          Col("age", "int64", 0, 0) @@ [neg_count |-> 0],
          Col("x", "bool", 100, 2)}

\* the distinct values of a categorical column, with and without values that
\* differ by letter case only
CaseSamples ==
    {{"Yes", "No"}, {"Yes", "yes"}, {"Yes", "yes", "YES"}, {"Yes", "yes", "No", "no"}}

\* figures measure_consistency reads
ConsistencyCols ==
    {Col("x", "object", 100, Cardinality(u)) @@ [uniques |-> u, edge_whitespace |-> FALSE] :
        u \in CaseSamples}
    \cup {Col("x", "object", 100, 2) @@ [uniques |-> u, edge_whitespace |-> TRUE] :
        u \in {{"Yes", "No"}, {"Yes", "yes"}}}
    \cup {Col("created_date", "object", 100, 50)
            @@ [date_parse_fails |-> pf, parsed_dates |-> IF pf THEN 40 ELSE 100,
                latest |-> StartDay - 10] : pf \in BOOLEAN}
    \cup {Col("x", "float64", 100, 100) @@ [extreme |-> e] : e \in {1, 2}}
    \cup {Col("x", "float64", 10, 10) @@ [extreme |-> 2],
          Col("x", "float64", 11, 11) @@ [extreme |-> 1],
          Col("created_date", "object", 0, 0) @@ [date_parse_fails |-> TRUE]}

\* columns with non-null shares about the 80% and 95% marks, in datasets of
\* 100 rows and in datasets of ManyRows rows where two shares round alike
ManyRows == 100000
CompletenessCols == {Col("x", "object", n, n) : n \in {0, 79, 80, 94, 95, 100}}
CompletenessColsMany ==
    {Col("x", "object", n, n) : n \in {79996, 80000, 94996, 95000}}

\* columns about the 0.95 cardinality mark, with and without a missing value
UniquenessCols ==
    {Col("id", "int64", 100, u) : u \in {95, 96, 100}}
    \cup {Col("id", "int64", 99, 99)}

\* datasets of 1000 rows whose only blemish is missing cells: a complete
\* identifier and a numeric column filled to about a quarter, so that the
\* overall score lies about the mark of 90
GradeBoundaryFrames ==
    {[nrows |-> 1000, dup |-> 0,
      columns |-> Numbered(<<Col("id", "int64", 1000, 1000),
                             Col("x", "float64", n, n)>>)] :
        n \in {257, 258, 259, 260}}

\* figures measure_accuracy reads
AccuracyCols ==
    {Col("x", "float64", 100, 100) @@ [outliers |-> o] : o \in {0, 2, 3, 5, 6}}
    \cup {Col("x", "int64", 9, 9) @@ [outliers |-> 1],
          Col("x", "int64", 10, 10) @@ [outliers |-> 1],
          Col("x", "object", 100, 50)}

\* figures measure_timeliness reads
TimelinessCols ==
    {Col("when", "datetime64", 100, 100) @@ [latest |-> StartDay - age] :
        age \in {-1, 0, 29, 30, 90, 91, 365, 366}}
    \cup {Col("created_date", "object", 100, 100)
            @@ [parsed_dates |-> 50, latest |-> StartDay - 400],
          Col("created_date", "object", 100, 100)
            @@ [parsed_dates |-> 51, latest |-> StartDay - 400],
          Col("x", "object", 100, 100) @@ [parsed_dates |-> 100, latest |-> StartDay - 400],
          Col("when", "datetime64", 0, 0) @@ [latest |-> StartDay - 400],
          Col("x", "int64", 100, 100)}

\* figures measure_ml_readiness reads
MLCols ==
    {Col("x", "float64", 100, 100) @@ [variance |-> v] : v \in {9, 10}}
    \cup {Col("label", "object", 100, u) @@ [class_max |-> 50, class_min |-> 50] :
        u \in {1, 2, 20, 21}}
    \cup {Col("label", "object", 100, 2) @@ [class_max |-> mx, class_min |-> 100 - mx] :
        mx \in {74, 75, 90, 91}}
    \cup {Col("label", "category", 100, 2) @@ [class_max |-> 60, class_min |-> 0]}

\* the correlation matrices of a dataset: one figure per pair of numeric columns
CorrValues == {-90000, 69996, 70000, 89996}
WithCorr(d) ==
    LET n     == Len(numeric_cols(d))
        pairs == {<<i, j>> \in (1..n) \X (1..n) : i < j}
    IN  {d @@ [corr |-> m] : m \in [pairs -> CorrValues]}

\* like columns that each lower a score, for datasets wide enough to reach 0
WideCols ==
    {Col("created_date", "object", 100, 2)
        @@ [uniques |-> {"Yes", "yes"}, edge_whitespace |-> TRUE, date_parse_fails |-> TRUE,
            parsed_dates |-> 60, latest |-> StartDay - 400,
            class_max |-> 99, class_min |-> 1, whitespace_only |-> 1],
     Col("price", "float64", 100, 100)
        @@ [outliers |-> 6, extreme |-> 2, variance |-> 1, inf_count |-> 1, neg_count |-> 1],
     Col("when", "datetime64", 100, 100) @@ [latest |-> StartDay - 400]}

WideFrames ==
    {d @@ [corr |-> [p \in {<<i, j>> \in (1..Len(d.columns)) \X (1..Len(d.columns)) : i < j}
                      |-> v]] :
        d \in WideOver(100, WideCols), v \in {0, 90000}}

\* datasets of MaxDateCols date columns, old and fresh, datetime-typed and
\* date strings, in every order
DateCols ==
    {Col("when", "datetime64", 100, 100) @@ [latest |-> StartDay - 400],
     Col("when", "datetime64", 100, 100) @@ [latest |-> StartDay - 10],
     Col("created_date", "object", 100, 100)
        @@ [parsed_dates |-> 60, latest |-> StartDay - 100]}

DateFrames ==
    {[nrows |-> 100, columns |-> Numbered(cs), dup |-> 0] :
        cs \in [1..MaxDateCols -> DateCols]}

\* empty datasets: columns of every storage type without a row, and rows
\* without a column (no row of such a dataset is marked as a duplicate)
ZeroRowCols ==
    {Col("age", "int64", 0, 0), Col("price", "float64", 0, 0),
     Col("email", "object", 0, 0), Col("x", "category", 0, 0),
     Col("created_date", "object", 0, 0) @@ [parsed_dates |-> 0],
     Col("when", "datetime64", 0, 0), Col("x", "bool", 0, 0)}

EmptyFrames ==
    FramesOver(0, ZeroRowCols)
    \cup {[nrows |-> r, columns |-> <<>>, dup |-> 0] : r \in 1..MaxRows}

(***************************************************************************)
(* The analyzer: an EnterpriseDataAnalyzer built on a dataset, and one     *)
(* action per public measurement.                                          *)
(***************************************************************************)
NoDims == [dimension |-> "none"]

Init ==
    /\ \/ df \in TableFrames
       \/ df \in FramesOver(100, ValidityCols)
       \/ df \in FramesOver(100, ConsistencyCols)
       \/ df \in FramesOver(100, AccuracyCols)
       \/ df \in FramesOver(100, CompletenessCols)
       \/ df \in FramesOver(100, UniquenessCols)
       \/ df \in GradeBoundaryFrames
       \/ df \in FramesOver(ManyRows, CompletenessColsMany)
       \/ df \in FramesOver(100, TimelinessCols)
       \/ \E d \in FramesOver(100, MLCols) : df \in WithCorr(d)
       \/ df \in WideFrames
       \/ df \in DateFrames
       \/ df \in EmptyFrames
    /\ clock = StartDay
    /\ result = NoResult
    /\ dims = NoDims
    /\ request = NoRequest
    /\ recommender = NoRecommender
    /\ trainer = NoTrainer
    /\ reply = NoReply
    /\ _temp_storage = NoStorage
    /\ _conversations = NoConversations

MeasureCompleteness ==
    /\ result' = measure_completeness(df)
    /\ UNCHANGED <<_temp_storage, _conversations, df, clock, dims, request, recommender, trainer, reply>>

MeasureUniqueness ==
    /\ result' = measure_uniqueness(df)
    /\ UNCHANGED <<_temp_storage, _conversations, df, clock, dims, request, recommender, trainer, reply>>

MeasureValidity ==
    /\ result' = measure_validity(df)
    /\ UNCHANGED <<_temp_storage, _conversations, df, clock, dims, request, recommender, trainer, reply>>

MeasureConsistency ==
    /\ result' = measure_consistency(df)
    /\ UNCHANGED <<_temp_storage, _conversations, df, clock, dims, request, recommender, trainer, reply>>

MeasureAccuracy ==
    /\ result' = measure_accuracy(df)
    /\ UNCHANGED <<_temp_storage, _conversations, df, clock, dims, request, recommender, trainer, reply>>

MeasureTimeliness ==
    /\ result' = measure_timeliness(df, clock)
    /\ UNCHANGED <<_temp_storage, _conversations, df, clock, dims, request, recommender, trainer, reply>>

MeasureMlReadiness ==
    /\ result' = measure_ml_readiness(df)
    /\ UNCHANGED <<_temp_storage, _conversations, df, clock, dims, request, recommender, trainer, reply>>

CalculateOverallScore ==
    /\ result' = calculate_overall_score(df, clock)
    /\ UNCHANGED <<_temp_storage, _conversations, df, clock, dims, request, recommender, trainer, reply>>

\* time passes between the two readings of datetime.now(): the second may
\* fall on the next day of a column's age
GenerateFullReport ==
    /\ \E later \in {clock, clock + 1} :
          /\ later <= StartDay + MaxElapsed
          /\ result' = generate_full_report(df, clock, later)
          /\ clock' = later
    /\ UNCHANGED <<_temp_storage, _conversations, df, dims, request, recommender, trainer, reply>>

Next ==
    \/ MeasureCompleteness
    \/ MeasureUniqueness
    \/ MeasureValidity
    \/ MeasureConsistency
    \/ MeasureAccuracy
    \/ MeasureTimeliness
    \/ MeasureMlReadiness
    \/ CalculateOverallScore
    \/ GenerateFullReport

Spec == Init /\ [][Next]_vars


(***************************************************************************)
(* Score aggregation on given Dimension Results: the part of               *)
(* calculate_overall_score after the seven measurer calls, applied to      *)
(* results with scores the measurers can return.                           *)
(***************************************************************************)
CompletenessScores == {0, 5996, 6000, 6996, 7000, 8750, 9996, 10000}
UniquenessScores == {0, 6667, 9680, 10000}
ValidityScores == {0, 8200, 10000}
ConsistencyScores == {0, 7100, 10000}
AccuracyScores == {0, 6800, 10000}
TimelinessScores == {None, Some(4000), Some(9000), Some(10000)}
MlReadiness == {[score |-> 10000, status |-> "ready"], [score |-> 5500, status |-> "not_ready"]}

DimSamples ==
    {[completeness |-> [score |-> c], uniqueness |-> [score |-> u],
      validity     |-> [score |-> v], consistency |-> [score |-> k],
      accuracy     |-> [score |-> a], timeliness |-> [score |-> t],
      ml_readiness |-> ml] :
        c \in CompletenessScores, u \in UniquenessScores, v \in ValidityScores,
        k \in ConsistencyScores, a \in AccuracyScores, t \in TimelinessScores,
        ml \in MlReadiness}

InitAggregate ==
    /\ dims \in DimSamples
    /\ df = [nrows |-> 0, columns |-> <<>>]
    /\ clock = StartDay
    /\ result = NoResult
    /\ request = NoRequest
    /\ recommender = NoRecommender
    /\ trainer = NoTrainer
    /\ reply = NoReply
    /\ _temp_storage = NoStorage
    /\ _conversations = NoConversations

Aggregate ==
    /\ result' = quality_score(dims)
    /\ UNCHANGED <<_temp_storage, _conversations, df, clock, dims, request, recommender, trainer, reply>>

\* the quality_score block of the fixed report GET /demo-report returns:
\* literals of the handler, scores in hundredths, overall_score in tenths
demo_report ==
    [dimension           |-> "Demo",
     overall_score       |-> 768,
     grade               |-> "C",
     grade_description   |-> "Fair - Several Issues to Address",
     dimension_scores    |-> [completeness |-> 8750, uniqueness |-> 9680,
                              validity     |-> 8200, consistency |-> 7100,
                              accuracy     |-> 6850, timeliness  |-> 8500],
     weights             |-> [completeness |-> 25, uniqueness |-> 15, validity |-> 15,
                              consistency  |-> 15, accuracy   |-> 20, timeliness |-> 10],
     ml_readiness_score  |-> 7200,
     ml_readiness_status |-> "needs_improvement"]

GetDemoReport ==
    /\ result' = demo_report
    /\ UNCHANGED <<_temp_storage, _conversations, df, clock, dims, request, recommender, trainer, reply>>

NextAggregate ==
    \/ Aggregate
    \/ GetDemoReport

SpecAggregate == InitAggregate /\ [][NextAggregate]_vars


(***************************************************************************)
(* ModelTrainer._detect_task_type                                          *)
(***************************************************************************)
\* self.df[name]: the column of that name, <<>> when the dataset has none
column_named(d, name) == SelectSeq(d.columns, LAMBDA col : col.name = name)

\* the task type, or the exception the call raises
_detect_task_type(d, target_column) ==
    IF column_named(d, target_column) = <<>> THEN "KeyError"
    ELSE LET target == column_named(d, target_column)[1]
         IN  IF target.dtype = "object" \/ target.dtype = "category"
             THEN "classification"
             \* unique_ratio = target.nunique() / len(target)
             ELSE IF len_df(d) = 0 THEN "ZeroDivisionError"
             ELSE IF nunique(target) <= 20 /\ nunique(target) * 100 < 5 * len_df(d)
             THEN "classification"
             ELSE "regression"

\* ModelTrainer(df, target_column): the object, or the exception raised
new_ModelTrainer(d, target_column) ==
    LET task == _detect_task_type(d, target_column)
    IN  IF task \in {"KeyError", "ZeroDivisionError"}
        THEN [task_type |-> "none", raised |-> task]
        ELSE [task_type |-> task, raised |-> "none"]

(***************************************************************************)
(* ModelRecommender                                                        *)
(***************************************************************************)
\* MODEL_INFO, its keys in the order of the dict literal
MODEL_INFO ==
    <<"xgboost", "lightgbm", "catboost", "random_forest", "logistic_regression",
      "linear_regression", "gradient_boosting">>

\* the "Target analysis" step of _analyze_data: the profile's task_type, or the
\* exception the regression branch raises on a target that has no mean
target_task_type(d, target_column) ==
    IF target_column = NoColumn \/ column_named(d, target_column) = <<>> THEN "unknown"
    ELSE LET target == column_named(d, target_column)[1]
         IN  IF target.dtype = "object" \/ nunique(target) <= 20 THEN "classification"
             ELSE IF target.dtype = "category" THEN "TypeError"
             ELSE "regression"

\* imbalance_ratio > 3, the ratio being value_counts max / min, or 999 when the
\* minimum is not positive
target_is_imbalanced(target) ==
    LET counts == IF HasValues(target)
                  THEN {Cardinality({i \in 1..Len(target.values) : target.values[i] = v}) :
                           v \in unique_values(target)}
                  ELSE {}
        class_max == IF HasValues(target)
                     THEN (IF counts = {} THEN 0
                           ELSE CHOOSE m \in counts : \A n \in counts : n <= m)
                     ELSE Figure(target, "class_max", 0)
        class_min == IF HasValues(target)
                     THEN (IF counts = {} THEN 0
                           ELSE CHOOSE m \in counts : \A n \in counts : n >= m)
                     ELSE Figure(target, "class_min", 0)
    IN  IF class_min > 0 THEN class_max > 3 * class_min ELSE TRUE

\* the profile; is_imbalanced is set for a classification target only, and
\* profile.get("is_imbalanced") is falsy without it
_analyze_data(d, target_column) ==
    LET missing == size_df(d)
                   - SumSeq([c \in 1..Len(d.columns) |-> notna_sum(d.columns[c])])
        task    == target_task_type(d, target_column)
        rows    == len_df(d)
    IN  [rows                |-> rows,
         columns             |-> Len(d.columns),
         numeric_columns     |-> Len(numeric_cols(d)),
         categorical_columns |-> Len(categorical_cols(d)),
         datetime_columns    |-> Len(datetime_cols(d)),
         \* missing_pct > 0; 0 / 0 is nan, and nan > 0 is False
         has_missing         |-> size_df(d) > 0 /\ missing > 0,
         task_type           |-> task,
         is_imbalanced       |-> task = "classification"
                                 /\ target_is_imbalanced(column_named(d, target_column)[1]),
         size_category       |-> IF rows < 1000 THEN "small"
                                 ELSE IF rows < 100000 THEN "medium" ELSE "large"]

\* ModelRecommender(df, target_column): the object, or the exception raised
new_ModelRecommender(d, target_column) ==
    IF target_task_type(d, target_column) = "TypeError"
    THEN [data_profile |-> NoProfile, raised |-> "TypeError"]
    ELSE [data_profile |-> _analyze_data(d, target_column), raised |-> "none"]

_score_model(profile, model_id) ==
    50
    + (IF model_id = "lightgbm" /\ profile.size_category = "large" THEN 20 ELSE 0)
    + (IF model_id = "logistic_regression" /\ profile.size_category = "small"
       THEN 15 ELSE 0)
    + (IF model_id \in {"xgboost", "lightgbm", "catboost"}
          /\ profile.size_category = "medium" THEN 10 ELSE 0)
    + (IF model_id = "catboost" /\ profile.categorical_columns > 3 THEN 25 ELSE 0)
    + (IF model_id = "lightgbm" /\ profile.categorical_columns > 5 THEN 15 ELSE 0)
    + (IF profile.has_missing /\ model_id \in {"xgboost", "lightgbm", "catboost"}
       THEN 10 ELSE 0)
    + (IF profile.is_imbalanced /\ model_id = "xgboost" THEN 15 ELSE 0)
    + (IF model_id \in {"xgboost", "lightgbm", "catboost"} THEN 10 ELSE 0)
    - (IF model_id \in {"logistic_regression", "linear_regression"} THEN 5 ELSE 0)

\* str.capitalize() of a phrase that opens a justification (the phrases are
\* in lower case throughout, so only the first letter changes)
capitalize(phrase) ==
    CASE phrase = "handles class imbalance well"    -> "Handles class imbalance well"
      [] phrase = "handles missing values natively" -> "Handles missing values natively"
      [] phrase = "industry standard with best accuracy"
                                                    -> "Industry standard with best accuracy"
      [] phrase = "optimized for large datasets"    -> "Optimized for large datasets"
      [] phrase = "fastest training time"           -> "Fastest training time"
      [] phrase = "native handling for your categorical columns"
                                           -> "Native handling for your categorical columns"
      [] phrase = "no manual encoding needed"       -> "No manual encoding needed"
      [] phrase = "robust and rarely overfits"      -> "Robust and rarely overfits"
      [] phrase = "fully interpretable coefficients" -> "Fully interpretable coefficients"
      [] phrase = "simple and fully explainable"    -> "Simple and fully explainable"
      [] OTHER                                      -> phrase

\* ", ".join(reasons).capitalize(): the justification, kept as the sequence
\* of its comma-separated phrases; the empty sequence is the empty string
join_capitalize(reasons) ==
    IF reasons = <<>> THEN <<>> ELSE <<capitalize(reasons[1])>> \o Tail(reasons)

\* the phrases of _generate_recommendation_reason, reasons[:3]
_generate_recommendation_reason(profile, model_id) ==
    LET reasons ==
          CASE model_id = "xgboost" ->
                 (IF profile.is_imbalanced THEN <<"handles class imbalance well">>
                  ELSE <<>>)
                 \o (IF profile.has_missing THEN <<"handles missing values natively">>
                     ELSE <<>>)
                 \o <<"industry standard with best accuracy">>
            [] model_id = "lightgbm" ->
                 (IF profile.size_category = "large"
                  THEN <<"optimized for large datasets">> ELSE <<>>)
                 \o <<"fastest training time", "memory efficient">>
            [] model_id = "catboost" ->
                 (IF profile.categorical_columns > 3
                  THEN <<"native handling for your categorical columns">> ELSE <<>>)
                 \o <<"no manual encoding needed">>
            [] model_id = "random_forest" ->
                 <<"robust and rarely overfits", "provides feature importance",
                   "good for understanding data">>
            [] model_id = "logistic_regression" ->
                 <<"fully interpretable coefficients", "fast baseline for comparison",
                   "probabilistic predictions">>
            [] model_id = "linear_regression" ->
                 <<"simple and fully explainable", "good baseline model",
                   "easy to explain to stakeholders">>
            [] OTHER -> <<>>
    IN  join_capitalize(SubSeq(reasons, 1, Min(3, Len(reasons))))

available_models(task) ==
    IF task = "classification"
    THEN <<"xgboost", "lightgbm", "catboost", "random_forest",
           "logistic_regression", "gradient_boosting">>
    ELSE IF task = "regression"
    THEN <<"xgboost", "lightgbm", "catboost", "random_forest",
           "linear_regression", "gradient_boosting">>
    ELSE <<"random_forest", "xgboost", "lightgbm">>

\* sorted(scores.items(), key=lambda x: x[1], reverse=True): stable, so models
\* of equal score keep the order in which scores was filled
\* a sort that puts the later of two models of equal score first
RECURSIVE InsertByScoreTiesReversed(_, _)
InsertByScoreTiesReversed(x, s) ==
    IF s = <<>> THEN <<x>>
    ELSE IF x.score >= Head(s).score THEN <<x>> \o s
    ELSE <<Head(s)>> \o InsertByScoreTiesReversed(x, Tail(s))

RECURSIVE InsertByScore(_, _)
InsertByScore(x, s) ==
    IF s = <<>> THEN <<x>>
    ELSE IF x.score > Head(s).score THEN <<x>> \o s
    ELSE <<Head(s)>> \o InsertByScore(x, Tail(s))

RECURSIVE SortByScore(_)
SortByScore(s) ==
    IF s = <<>> THEN <<>>
    ELSE InsertByScore(s[Len(s)], SortByScore(SubSeq(s, 1, Len(s) - 1)))

\* get_recommendations without the sort: the models in the order scored
get_recommendations_unsorted(profile, top_n) ==
    LET models == available_models(profile.task_type)
        top == SubSeq(models, 1, Min(top_n, Len(models)))
    IN  [i \in 1..Len(top) |->
            [id    |-> top[i],
             rank  |-> i,
             score |-> _score_model(profile, top[i]),
             why   |-> _generate_recommendation_reason(profile, top[i])]]

\* top_n is a count: the callers pass 3 and 1
get_recommendations(profile, top_n) ==
    LET models == available_models(profile.task_type)
        scores == [i \in 1..Len(models) |->
                      [id |-> models[i], score |-> _score_model(profile, models[i])]]
        sorted_models == SortByScore(scores)
        top == SubSeq(sorted_models, 1, Min(top_n, Len(sorted_models)))
    IN  [i \in 1..Len(top) |->
            [id    |-> top[i].id,
             rank  |-> i,
             score |-> top[i].score,
             why   |-> _generate_recommendation_reason(profile, top[i].id)]]

\* generate_chat_response: the profile and the three best models
generate_chat_response(profile) ==
    [type            |-> "analysis",
     data_profile    |-> profile,
     recommendations |-> get_recommendations(profile, 3)]

\* POST /recommend on a stored dataset: the response body, or the failure an
\* exception of the recommender turns into
get_model_recommendations(d, target_column) ==
    LET made == new_ModelRecommender(d, target_column)
    IN  IF made.raised # "none"
        THEN [type |-> "error", status |-> "Internal Server Error", raised |-> made.raised]
        ELSE [status |-> "success"] @@ generate_chat_response(made.data_profile)

(***************************************************************************)
(* The datasets the recommender and the trainer are built on: a target     *)
(* column followed by string columns and, or not, a numeric column with    *)
(* missing cells.                                                          *)
(***************************************************************************)
MaxTopN == 7   \* the largest top_n asked of get_recommendations

ModelRows == {0, 1, 100, 101, 999, 1000, 10000, 100000}
TargetDtypes == {"object", "category", "int64", "float64", "bool"}
StringColumnCounts == {0, 3, 4, 5, 6}

\* the distinct-value counts tried on a target of that many rows
TargetUniques(rows) == {u \in {0, 1, 2, 5, 20, 21, rows} : u <= rows}

\* a target column: all its cells are missing when it has no distinct value;
\* its classes stand 4 to 1 when imbalanced and even otherwise
TargetCol(dtype, rows, u, imb) ==
    Col("target", dtype, IF u = 0 THEN 0 ELSE rows, u)
    @@ [class_max |-> IF u = 0 THEN 0 ELSE IF imb THEN 4 ELSE 1,
        class_min |-> IF u = 0 THEN 0 ELSE 1]

\* the combinations a column can show: a bool column has at most two values,
\* only a string, category or float column can be all missing, and classes
\* of unequal size need rows to spare
TargetCols(rows) ==
    {TargetCol(x[1], rows, x[2], x[3]) :
        x \in {y \in TargetDtypes \X TargetUniques(rows) \X BOOLEAN :
                 /\ y[1] = "bool" => y[2] <= 2
                 /\ (y[2] = 0 /\ rows > 0) => y[1] \in {"object", "category", "float64"}
                 /\ y[3] => (y[2] >= 2 /\ rows >= y[2] + 3)}}

ModelFramesOf(rows) ==
    {[nrows   |-> rows,
      columns |-> Numbered(<<t>>
                           \o [i \in 1..k |-> Col("name", "object", rows, Min(rows, 2))]
                           \o (IF gaps
                               THEN <<Col("price", "float64", rows - 1, rows - 1)>>
                               ELSE <<>>))] :
        t \in TargetCols(rows), k \in StringColumnCounts,
        gaps \in {g \in BOOLEAN : g => rows > 0}}

ModelFrames == UNION {ModelFramesOf(rows) : rows \in ModelRows}

\* the target_column of a request: the first column, a name no column has, or None
TargetRequests ==
    {[target_column |-> [stem |-> "target", no |-> 1]],
     [target_column |-> [stem |-> "label", no |-> 0]],
     [target_column |-> NoColumn]}

InitModels ==
    /\ df \in ModelFrames
    /\ request \in TargetRequests
    /\ clock = StartDay
    /\ result = NoResult
    /\ dims = NoDims
    /\ recommender = NoRecommender
    /\ trainer = NoTrainer
    /\ reply = NoReply
    /\ _temp_storage = NoStorage
    /\ _conversations = NoConversations

NewRecommender ==
    /\ recommender' = new_ModelRecommender(df, request.target_column)
    /\ UNCHANGED <<_temp_storage, _conversations, df, result, clock, dims, request, trainer, reply>>

GetRecommendations ==
    /\ recommender # NoRecommender
    /\ recommender.raised = "none"
    /\ \E top_n \in 0..MaxTopN :
          reply' = [type            |-> "recommendations",
                    top_n           |-> top_n,
                    recommendations |-> get_recommendations(recommender.data_profile,
                                                            top_n)]
    /\ UNCHANGED <<_temp_storage, _conversations, df, result, clock, dims, request, recommender, trainer>>

NewTrainer ==
    /\ trainer' = new_ModelTrainer(df, request.target_column)
    /\ UNCHANGED <<_temp_storage, _conversations, df, result, clock, dims, request, recommender, reply>>

GetModelRecommendations ==
    /\ reply' = get_model_recommendations(df, request.target_column)
    /\ UNCHANGED <<_temp_storage, _conversations, df, result, clock, dims, request, recommender, trainer>>

NextModels ==
    \/ NewRecommender
    \/ GetRecommendations
    \/ NewTrainer
    \/ GetModelRecommendations

SpecModels == InitModels /\ [][NextModels]_vars

(***************************************************************************)
(* Upload and reuse of a dataset: POST /upload/file analyses the file and  *)
(* stores the report; POST /models/recommend looks the dataset up by its   *)
(* source id.  df is the dataset read from the uploaded file; source ids   *)
(* (uuid4 strings in the code) are the positions in _temp_storage.  The    *)
(* "demo" source id and the training that follows ModelTrainer(...) are    *)
(* not modelled.                                                           *)
(***************************************************************************)
SampleRows == 10   \* get_sample_data(n=10)
MaxUploads == 1    \* uploads in one behaviour

\* fillna("").astype(str) of one cell (cells are kept in their printed form)
astype_str(v) == IF v = NaN THEN "" ELSE v

\* self.df.head(n).fillna("").astype(str).to_dict(orient='records'): one
\* dict per row, its items <<column name, string>> in column order
get_sample_data(d) ==
    [i \in 1..Min(SampleRows, len_df(d)) |->
        [c \in 1..Len(d.columns) |->
            <<d.columns[c].name, astype_str(d.columns[c].values[i])>>]]

\* pd.DataFrame(records): the keys of the dicts are the columns, every column
\* holds strings; no record, no column
DataFrame_of_records(records) ==
    IF records = <<>> THEN [nrows |-> 0, columns |-> <<>>]
    ELSE [nrows   |-> Len(records),
          columns |-> [c \in 1..Len(records[1]) |->
                          [name   |-> records[1][c][1],
                           dtype  |-> "object",
                           values |-> [i \in 1..Len(records) |-> records[i][c][2]]]]]

\* analyze_file after the file is read: the full report with its sample_data
\* (the last entry of the dict literal), or the failure an exception turns into
analyze_file(d, now, later) ==
    LET report == generate_full_report(d, now, later)
    IN  IF report.dimension = "raised"
        THEN [status |-> "failed", error |-> report.error]
        ELSE report @@ [sample_data |-> get_sample_data(d)]

\* _get_dataframe: a stored report has no "dataframe" key, so the dataset is
\* rebuilt from its sample_data; <<>> stands for None
_get_dataframe(storage, source_id) ==
    IF source_id \in 1..Len(storage)
    THEN <<DataFrame_of_records(storage[source_id].sample_data)>>
    ELSE <<>>

\* the columns of an uploaded file of r rows: an integer identifier, a string
\* label of two classes and a float with its first cell missing
Printed == <<"1", "2", "3", "4", "5", "6", "7", "8", "9", "10", "11", "12", "13">>
UploadCols(r) ==
    {[name |-> [stem |-> "id", no |-> 0], dtype |-> "int64",
      values |-> [i \in 1..r |-> Printed[i]]],
     [name |-> [stem |-> "label", no |-> 0], dtype |-> "object",
      values |-> [i \in 1..r |-> IF i % 2 = 1 THEN "a" ELSE "b"]],
     [name |-> [stem |-> "price", no |-> 0], dtype |-> "float64",
      values |-> [i \in 1..r |-> IF i = 1 THEN NaN ELSE Printed[i]]]}

UploadRows == {0, 1, SampleRows, SampleRows + 1}

UploadFramesOf(r) ==
    {[nrows |-> r, columns |-> Numbered(cs)] :
        cs \in UNION {[1..k -> UploadCols(r)] : k \in 1..MaxCols}}

UploadFrames == UNION {UploadFramesOf(r) : r \in UploadRows}

InitUpload ==
    /\ df \in UploadFrames
    /\ clock = StartDay
    /\ result = NoResult
    /\ dims = NoDims
    /\ request = NoRequest
    /\ recommender = NoRecommender
    /\ trainer = NoTrainer
    /\ reply = NoReply
    /\ _temp_storage = NoStorage
    /\ _conversations = NoConversations

\* POST /upload/file: a failed analysis is answered with 400 and nothing is
\* stored; the summary reads report["basic_stats"], a key no report has
UploadFile ==
    /\ Len(_temp_storage) < MaxUploads
    /\ \E later \in {clock, clock + 1} :
          /\ later <= StartDay + MaxElapsed
          /\ clock' = later
          /\ LET report    == analyze_file(df, clock, later)
                 source_id == Len(_temp_storage) + 1
             IN  IF report.status = "failed"
                 THEN /\ reply' = [type |-> "error", status |-> "Bad Request",
                                   raised |-> report.error]
                      /\ UNCHANGED _temp_storage
                 ELSE /\ _temp_storage' = Append(_temp_storage, report)
                      /\ reply' = [type      |-> "upload",
                                   status    |-> "success",
                                   source_id |-> source_id,
                                   summary   |-> [rows    |-> 0,
                                                  columns |-> 0,
                                                  quality_score |->
                                                      report.quality_score.overall_score,
                                                  grade   |-> report.quality_score.grade]]
    /\ UNCHANGED <<_conversations, df, result, dims, request, recommender, trainer>>

\* POST /models/recommend
Recommend ==
    /\ \E source_id \in 1..(MaxUploads + 1) :
       \E target_column \in {df.columns[c].name : c \in 1..Len(df.columns)} \cup {NoColumn} :
          LET found == _get_dataframe(_temp_storage, source_id)
          IN  /\ request' = [source_id |-> source_id, target_column |-> target_column]
              /\ reply' = IF found = <<>>
                          THEN [type |-> "error", status |-> "Not Found",
                                raised |-> "none"]
                          ELSE get_model_recommendations(found[1], target_column)
                               @@ [source_id |-> source_id]
    /\ UNCHANGED <<_temp_storage, _conversations, df, result, clock, dims, recommender,
                   trainer>>

NextUpload ==
    \/ UploadFile
    \/ Recommend

SpecUpload == InitUpload /\ [][NextUpload]_vars

(***************************************************************************)
(* The assistant's chat endpoint: api/v1/assistant.py.                     *)
(***************************************************************************)

\* "Keep only last 10 messages"
HistoryLimit == 10

\* what the clients write into the chat box, and what chat_with_llm answers
\* (it returns a dict with an "answer" on every path)
Messages == {"hi", "help"}
Answers == {"ok"}

\* ChatMessage.conversation_id: Optional[str], None when not given
ConversationIds == {None, Some(""), Some("default"), Some("a")}

\* the path parameter of DELETE /history/{conversation_id}
HistoryPaths == {"default", "a", "b"}

\* request.conversation_id or "default"
conv_id_of(conversation_id) ==
    IF conversation_id = None \/ ValueOf(conversation_id) = ""
    THEN "default"
    ELSE ValueOf(conversation_id)

\* history[-9:], one message short of the limit
last_nine(history) ==
    SubSeq(history, Max(1, Len(history) - 8), Len(history))

\* history[-10:]
last_messages(history) ==
    SubSeq(history, Max(1, Len(history) - HistoryLimit + 1), Len(history))

\* _conversations[conv_id] = history
store_history(conversations, conv_id, history) ==
    [c \in (DOMAIN conversations) \cup {conv_id} |->
        IF c = conv_id THEN history ELSE conversations[c]]

\* del _conversations[conversation_id]
del_history(conversations, conversation_id) ==
    [c \in (DOMAIN conversations) \ {conversation_id} |-> conversations[c]]

\* the history send_message leaves for its conversation
send_message(conversations, conv_id, message, answer) ==
    LET history == IF conv_id \in DOMAIN conversations
                   THEN conversations[conv_id] ELSE <<>>
        appended == history \o <<[role |-> "user", content |-> message],
                                 [role |-> "assistant", content |-> answer]>>
    IN  store_history(conversations, conv_id, last_messages(appended))

\* clear_history: delete the conversation when it is there
clear_history(conversations, conversation_id) ==
    IF conversation_id \in DOMAIN conversations
    THEN del_history(conversations, conversation_id)
    ELSE conversations

InitAssistant ==
    /\ df = [nrows |-> 0, columns |-> <<>>]
    /\ result = NoResult
    /\ clock = StartDay
    /\ dims = NoDims
    /\ request = NoRequest
    /\ recommender = NoRecommender
    /\ trainer = NoTrainer
    /\ reply = NoReply
    /\ _temp_storage = NoStorage
    /\ _conversations = NoConversations

\* POST /message; the handler never awaits, so it runs in one piece
SendMessage ==
    \E conversation_id \in ConversationIds, message \in Messages,
       answer \in Answers :
        /\ _conversations' = send_message(_conversations,
                                conv_id_of(conversation_id), message, answer)
        /\ request' = [op |-> "send_message",
                       conversation_id |-> conversation_id,
                       message |-> message]
        /\ reply' = [type |-> "chat", status |-> "success", answer |-> answer]
        /\ UNCHANGED <<_temp_storage, df, result, clock, dims, recommender, trainer>>

\* DELETE /history/{conversation_id}
ClearHistory ==
    \E conversation_id \in HistoryPaths :
        /\ _conversations' = clear_history(_conversations, conversation_id)
        /\ request' = [op |-> "clear_history",
                       conversation_id |-> Some(conversation_id)]
        /\ reply' = [type |-> "cleared", status |-> "success"]
        /\ UNCHANGED <<_temp_storage, df, result, clock, dims, recommender, trainer>>

NextAssistant ==
    \/ SendMessage
    \/ ClearHistory

SpecAssistant == InitAssistant /\ [][NextAssistant]_vars

(***************************************************************************)
(* Properties.                                                             *)
(***************************************************************************)
IsTable(d) == \A c \in 1..Len(d.columns) : HasValues(d.columns[c])

\* a column that bears dates: datetime-typed, or categorical with a date/time
\* keyword in its name and parsing as dates for more than half of the rows
BearsDates(d, col) ==
    \/ col.dtype = "datetime64"
    \/ /\ col.dtype \in {"object", "category"}
       /\ KeywordsIn(col.name) \cap {"date", "time", "created", "updated", "timestamp"} # {}
       /\ Figure(col, "parsed_dates", 0) * 2 > d.nrows

\* C1: the score of every Dimension Result the seven measurers return lies in
\* [0, 100]; only the Timeliness score may be None, and it is None exactly when
\* no column of the dataset bears dates.
C1_ScoresInRange ==
    /\ result.dimension \in {"Completeness", "Uniqueness", "Validity", "Consistency",
                             "Accuracy", "ML Readiness"}
         => result.score \in 0..10000
    /\ result.dimension = "Timeliness"
         => /\ result.score = None
                <=> ~ \E c \in 1..Len(df.columns) : BearsDates(df, df.columns[c])
            /\ result.score # None => ValueOf(result.score) \in 0..10000

\* C1 witness: an Accuracy result whose penalties exceed 100 and whose score is 0
C1_Witness ==
    /\ result.dimension = "Accuracy"
    /\ result.score = 0
    /\ Len(result.outlier_analysis) > 20

\* the non-missing cells of a dataset given cell by cell
NonNullCells(d) ==
    {<<c, i>> \in (1..Len(d.columns)) \X (1..d.nrows) : d.columns[c].values[i] # NaN}

\* C9: completeness of a dataset with at least one cell and no missing value is
\* exactly 100.0; in general it is non-null cells / total cells x 100 rounded to
\* two decimals.
C9_Completeness ==
    result.dimension = "Completeness" /\ df.nrows * Len(df.columns) > 0
      => /\ (\A c \in 1..Len(df.columns) : notna_sum(df.columns[c]) = df.nrows)
              => result.score = 10000
         /\ IsTable(df)
              => /\ result.non_null_cells = Cardinality(NonNullCells(df))
                 /\ result.total_cells = df.nrows * Len(df.columns)
                 /\ result.score = RoundPct2(Cardinality(NonNullCells(df)),
                                             df.nrows * Len(df.columns))

\* C9 witness: a dataset given cell by cell, two columns wide, nothing missing,
\* measured at 100.0
C9_Witness ==
    /\ result.dimension = "Completeness"
    /\ IsTable(df) /\ Len(df.columns) = 2 /\ df.nrows = 2
    /\ Cardinality(NonNullCells(df)) = 4
    /\ result.score = 10000

\* the rows identical in every column to an earlier row
LaterTwins(d) ==
    {i \in 1..d.nrows : \E j \in 1..(i - 1) :
        \A c \in 1..Len(d.columns) : d.columns[c].values[j] = d.columns[c].values[i]}

\* C10: uniqueness is (rows - duplicate rows) / rows x 100 (to two decimals), a
\* duplicate row being one identical in every column to an earlier row; with
\* exactly one duplicated row among N the score is (N-1)/N x 100; and
\* unique_rows + duplicate_rows = total_rows.
C10_Uniqueness ==
    result.dimension = "Uniqueness"
      => /\ result.unique_rows + result.duplicate_rows = result.total_rows
         /\ result.total_rows = df.nrows
         /\ IsTable(df) /\ df.nrows > 0 /\ Len(df.columns) > 0
              => /\ result.duplicate_rows = Cardinality(LaterTwins(df))
                 /\ result.score =
                        RoundPct2(df.nrows - Cardinality(LaterTwins(df)), df.nrows)
                 /\ Cardinality(LaterTwins(df)) = 1
                      => result.score = RoundPct2(df.nrows - 1, df.nrows)

\* C10 witness: three rows, exactly one of them a duplicate, scored 66.67
C10_Witness ==
    /\ result.dimension = "Uniqueness"
    /\ IsTable(df) /\ df.nrows = 3
    /\ Cardinality(LaterTwins(df)) = 1
    /\ result.score = 6667

\* the dimension scores calculate_overall_score sums: timeliness only if present
IncludedScores(m) ==
    {m.completeness.score, m.uniqueness.score, m.validity.score,
     m.consistency.score, m.accuracy.score}
    \cup (IF m.timeliness.score = None THEN {} ELSE {m.timeliness.score[1]})

\* the weighted sum written out, with the weights of the specification
WeightedSum(m) ==
    IF m.timeliness.score = None
    THEN 27 * m.completeness.score + 17 * m.uniqueness.score + 17 * m.validity.score
         + 17 * m.consistency.score + 22 * m.accuracy.score
    ELSE 25 * m.completeness.score + 15 * m.uniqueness.score + 15 * m.validity.score
         + 15 * m.consistency.score + 20 * m.accuracy.score
         + 10 * m.timeliness.score[1]

C3_GradeStepFunction ==
    result.dimension = "Overall"
      => LET o == WeightedSum(dims)
             g == result.grade
         IN  /\ g \in {"A", "B", "C", "D", "F"}
             /\ g = "A" <=> o >= 900000
             /\ g = "B" <=> 800000 <= o /\ o < 900000
             /\ g = "C" <=> 700000 <= o /\ o < 800000
             /\ g = "D" <=> 600000 <= o /\ o < 700000
             /\ g = "F" <=> o < 600000
             /\ o = 899900 => g = "B"
             /\ o = 900000 => g = "A"
             /\ o = 699900 => g = "D"
             /\ o = 700000 => g = "C"
             /\ result.grade_description =
                    (CASE g = "A" -> "Excellent - Production Ready"
                       [] g = "B" -> "Good - Minor Improvements Needed"
                       [] g = "C" -> "Fair - Several Issues to Address"
                       [] g = "D" -> "Poor - Significant Work Required"
                       [] OTHER   -> "Failing - Major Quality Issues")

\* C3 witness: an overall score of exactly 90.0, graded A
C3_Witness ==
    /\ result.dimension = "Overall"
    /\ WeightedSum(dims) = 900000
    /\ result.grade = "A"


(***************************************************************************)
(* Properties of the trainer and the recommender, under SpecModels.        *)
(***************************************************************************)
\* the request names a column of the dataset
TargetPresent == column_named(df, request.target_column) # <<>>

\* the request names a column, and the dataset has none of that name
TargetAbsent == request.target_column # NoColumn /\ ~TargetPresent

TargetColumn == column_named(df, request.target_column)[1]

\* C4: task-type detection on a target column present in the dataset returns
\* classification when the column is string or category typed, or when it has
\* at most 20 distinct values and distinct / rows < 0.05, and regression
\* otherwise.
C4_TaskTypeRule ==
    (trainer # NoTrainer /\ TargetPresent) =>
        trainer.task_type =
            IF TargetColumn.dtype \in {"object", "category"} THEN "classification"
            ELSE IF /\ TargetColumn.nunique <= 20
                    /\ TargetColumn.nunique * 100 < 5 * df.nrows
                 THEN "classification"
                 ELSE "regression"

\* C5: for every dataset and every target column present in it, the task_type
\* of the recommender's data profile equals the task type the trainer detects.
C5_SameTaskType ==
    (recommender # NoRecommender /\ trainer # NoTrainer /\ TargetPresent) =>
        /\ recommender.raised = "none"
        /\ trainer.raised = "none"
        /\ recommender.data_profile.task_type = trainer.task_type

\* C6: a request for recommendations on a target column absent from the
\* dataset ends in a failure, never in a ranked list of models.
C6_AbsentTargetIsError ==
    (TargetAbsent /\ reply # NoReply) => reply.type = "error"

\* the position of a model in MODEL_INFO
CatalogueIndex(id) == CHOOSE i \in 1..Len(MODEL_INFO) : MODEL_INFO[i] = id

\* C8: get_recommendations(top_n) returns k = min(top_n, applicable models)
\* distinct applicable models, ranked 1..k in list order, scores
\* non-increasing, no omitted applicable model scoring strictly higher than a
\* returned one, and models of equal score in the order of MODEL_INFO.
C8_RankedList ==
    reply.type = "recommendations" =>
        LET recs       == reply.recommendations
            profile    == recommender.data_profile
            applicable == available_models(profile.task_type)
            returned   == {recs[i].id : i \in 1..Len(recs)}
        IN  /\ Len(recs) = Min(reply.top_n, Len(applicable))
            /\ Cardinality(returned) = Len(recs)
            /\ returned \subseteq {applicable[i] : i \in 1..Len(applicable)}
            /\ \A i \in 1..Len(recs) : recs[i].rank = i
            /\ \A i \in 1..Len(recs) : \A j \in 1..Len(recs) :
                  i < j => /\ recs[i].score >= recs[j].score
                           /\ recs[i].score = recs[j].score =>
                                 CatalogueIndex(recs[i].id) < CatalogueIndex(recs[j].id)
            /\ \A a \in 1..Len(applicable) :
                  applicable[a] \notin returned =>
                      \A i \in 1..Len(recs) :
                          _score_model(profile, applicable[a]) <= recs[i].score

\* two of six applicable models asked for, the two returned tied in score
C8_Witness ==
    /\ reply.type = "recommendations"
    /\ reply.top_n = 2
    /\ Len(reply.recommendations) = 2
    /\ Len(available_models(recommender.data_profile.task_type)) = 6
    /\ reply.recommendations[1].score = reply.recommendations[2].score


(***************************************************************************)
(* Properties of the measurers, under Spec.                                *)
(***************************************************************************)
MeasurerDimensions ==
    {"Completeness", "Uniqueness", "Validity", "Consistency", "Accuracy",
     "Timeliness", "ML Readiness"}

MeasurerNames ==
    {"measure_completeness", "measure_uniqueness", "measure_validity",
     "measure_consistency", "measure_accuracy", "measure_timeliness",
     "measure_ml_readiness"}

\* C11: on a dataset with zero rows or zero columns every measurer returns a
\* Dimension Result and none raises; the ratios with a zero denominator are 0:
\* the completeness score and per-column ratios, and on zero rows the
\* uniqueness score, duplicate percentage and cardinality ratios.
C11_EmptyInput ==
    ((df.nrows = 0 \/ Len(df.columns) = 0) /\ result # NoResult) =>
        /\ result.dimension = "raised" => result.where \notin MeasurerNames
        /\ result.dimension \in MeasurerDimensions \ {"Timeliness"}
             => result.score \in 0..10000
        /\ result.dimension = "Timeliness"
             => (result.score = None \/ ValueOf(result.score) \in 0..10000)
        /\ result.dimension = "Completeness"
             => /\ result.score = 0
                /\ result.total_cells = 0
                /\ \A i \in 1..Len(result.column_details) :
                      result.column_details[i].completeness_ratio = 0
        /\ (result.dimension = "Uniqueness" /\ df.nrows = 0)
             => /\ result.score = 0
                /\ result.duplicate_percentage = 0
                /\ \A i \in 1..Len(result.column_cardinality) :
                      result.column_cardinality[i].cardinality_ratio = 0

\* a uniqueness result on a dataset that has columns and no rows
C11_Witness ==
    /\ df.nrows = 0
    /\ Len(df.columns) = MaxCols
    /\ \E c \in 1..Len(df.columns) : df.columns[c].dtype = "float64"
    /\ result.dimension = "Uniqueness"
    /\ result.score = 0


\* the Timeliness result t of dataset d degrades as stated: score None and
\* status "unknown" when no column bears dates, else a score and a status
\* among pass, warning and fail
TimelinessAsStated(d, t) ==
    IF \E c \in 1..Len(d.columns) : BearsDates(d, d.columns[c])
    THEN t.score # None /\ t.status \in {"pass", "warning", "fail"}
    ELSE t.score = None /\ t.status = "unknown"

\* C12: measure_timeliness returns score None and status "unknown" when no
\* column bears dates and a score with status pass, warning or fail when one
\* does, and the full report of every dataset contains that timeliness entry.
C12_TimelinessDegrades ==
    /\ result.dimension = "Timeliness" => TimelinessAsStated(df, result)
    /\ (result.dimension = "raised" /\ result.where = "generate_full_report") => FALSE
    /\ result.dimension = "Report" => TimelinessAsStated(df, result.timeliness)


\* the checks measure_validity makes on column c of d, each with the number of
\* violations it finds: <<c, message, violations>>
ValidityChecks(d) ==
    LET cols == {c \in 1..Len(d.columns) : notna_sum(d.columns[c]) > 0}
        fig(c, f) == Figure(d.columns[c], f, 0)
        kw(c) == KeywordsIn(d.columns[c].name)
    IN  {<<c, "infinite values detected",
           IF d.columns[c].dtype = "float64" THEN fig(c, "inf_count") ELSE 0>> :
            c \in {x \in cols : d.columns[x].dtype \in {"int64", "float64"}}}
        \cup {<<c, "unexpected negative values",
                IF kw(c) \cap {"age", "price", "amount", "quantity", "count", "size"} # {}
                THEN fig(c, "neg_count") ELSE 0>> :
            c \in {x \in cols : d.columns[x].dtype \in {"int64", "float64"}}}
        \cup {<<c, "whitespace-only values", fig(c, "whitespace_only")>> :
            c \in {x \in cols : d.columns[x].dtype \in {"object", "category"}}}
        \cup {<<c, "invalid email formats", fig(c, "invalid_emails")>> :
            c \in {x \in cols : /\ d.columns[x].dtype \in {"object", "category"}
                                /\ "email" \in kw(x)}}
        \cup {<<c, "potentially invalid phone numbers", fig(c, "invalid_phones")>> :
            c \in {x \in cols : /\ d.columns[x].dtype \in {"object", "category"}
                                /\ kw(x) \cap {"phone", "mobile"} # {}}}

\* the issues of a Validity result: <<column position, message, count>>
ValidityIssues(r) ==
    UNION {{<<r.issues[i].column.no, r.issues[i].issues[j].what,
              r.issues[i].issues[j].count>> : j \in 1..Len(r.issues[i].issues)} :
           i \in 1..Len(r.issues)}

\* C13: in measure_validity a check that finds violations fails and records
\* exactly one issue carrying the violation count, and a check that finds none
\* passes: the issues are the checks with violations, failed_checks =
\* total_checks - passed_checks is their number, and the score is
\* passed_checks / total_checks x 100 (two decimals).
C13_ValidityChecks ==
    result.dimension = "Validity" =>
        LET checks == ValidityChecks(df)
            failed == {k \in checks : k[3] > 0}
        IN  /\ result.total_checks = Cardinality(checks)
            /\ result.passed_checks = Cardinality(checks \ failed)
            /\ result.failed_checks = result.total_checks - result.passed_checks
            /\ ValidityIssues(result) = failed
            /\ SumSeq([i \in 1..Len(result.issues) |-> Len(result.issues[i].issues)])
                 = result.failed_checks
            /\ result.total_checks > 0
                 => result.score = RoundPct2(result.passed_checks, result.total_checks)

\* one malformed address among the 100 of an email-named column: one failed
\* check, reported with count 1
C13_Witness ==
    /\ result.dimension = "Validity"
    /\ Len(df.columns) = 1
    /\ df.columns[1].name.stem = "email"
    /\ df.columns[1].notna = 100
    /\ df.columns[1].invalid_emails = 1
    /\ result.total_checks = 2
    /\ result.failed_checks = 1
    /\ ValidityIssues(result) = {<<1, "invalid email formats", 1>>}


\* the case-inconsistency issues a Consistency result r records for column c
CaseIssues(r, c) ==
    {i \in 1..Len(r.issues) : /\ r.issues[i].column = c.name
                              /\ r.issues[i].issue = "Case inconsistency detected"}

\* two distinct values of the column differ by letter case only
HasCaseVariants(col) ==
    \E v \in unique_values(col) : \E w \in unique_values(col) :
        v # w /\ Lower(v) = Lower(w)

\* C14: a categorical column with values that differ only by letter case
\* incurs the case-inconsistency penalty of -2 exactly once, however many
\* variants or variant pairs it has, and a column without such values none.
C14_CasePenaltyOnce ==
    result.dimension = "Consistency" =>
        \A c \in 1..Len(df.columns) :
            LET col   == df.columns[c]
                found == CaseIssues(result, col)
            IN  /\ \A i \in found : result.issues[i].impact = -2
                /\ Cardinality(found) =
                      IF is_categorical(col) /\ notna_sum(col) > 0 /\ HasCaseVariants(col)
                      THEN 1 ELSE 0

\* a single column holding "Yes", "yes" and "YES": three variant pairs, one
\* issue, score 98
C14_Witness ==
    /\ result.dimension = "Consistency"
    /\ Len(df.columns) = 1
    /\ unique_values(df.columns[1]) = {"Yes", "yes", "YES"}
    /\ Cardinality(CaseIssues(result, df.columns[1])) = 1
    /\ result.score = 9800


\* the Dimension Results carrying the dimension scores of a demo report r
DemoDimensions(r) ==
    [completeness |-> [score |-> r.dimension_scores.completeness],
     uniqueness   |-> [score |-> r.dimension_scores.uniqueness],
     validity     |-> [score |-> r.dimension_scores.validity],
     consistency  |-> [score |-> r.dimension_scores.consistency],
     accuracy     |-> [score |-> r.dimension_scores.accuracy],
     timeliness   |-> [score |-> Some(r.dimension_scores.timeliness)],
     ml_readiness |-> [score |-> r.ml_readiness_score, status |-> r.ml_readiness_status]]

\* C15: the demo report's overall_score and grade are what the Score
\* Aggregator computes from the demo report's six dimension scores under the
\* fixed weights (0.25, 0.15, 0.15, 0.15, 0.20, 0.10): 76.8 and grade C.
C15_DemoFixture ==
    result.dimension = "Demo" =>
        LET computed == quality_score(DemoDimensions(result))
        IN  /\ result.weights = base_weights
            /\ computed.weights = result.weights
            /\ computed.overall_score = result.overall_score
            /\ computed.grade = result.grade
            /\ result.overall_score = 768
            /\ result.grade = "C"


\* the gradient-boosting-family models of the catalogue
BoostingFamily == {"xgboost", "lightgbm", "catboost", "gradient_boosting"}

\* C16: every gradient-boosting-family model of the catalogue (xgboost,
\* lightgbm, catboost and gradient_boosting) receives the +10 tabular-data
\* bonus whatever the data profile, so no recommendation of such a model
\* carries a score below 60.
C16_BoostingBonus ==
    reply.type = "recommendations" =>
        \A i \in 1..Len(reply.recommendations) :
            reply.recommendations[i].id \in BoostingFamily =>
                /\ reply.recommendations[i].score
                      = _score_model(recommender.data_profile, reply.recommendations[i].id)
                /\ reply.recommendations[i].score >= 50 + 10


\* C17: every analysed date column is labelled "current" when fewer than 30
\* days have passed since its latest date (a latest date of today included),
\* "recent" when at least 30 and fewer than 90 have, and "stale" otherwise.
C17_FreshnessLabel ==
    result.dimension = "Timeliness" =>
        \A i \in 1..Len(result.analysis) :
            LET days == result.analysis[i].days_since_latest
            IN  result.analysis[i].freshness =
                   IF days < 30 THEN "current"
                   ELSE IF days < 90 THEN "recent"
                   ELSE "stale"


\* the qualifying date columns of d in the order they are considered: the
\* datetime-typed columns, then the categorical columns that bear dates
QualifyingDateColumns(d) ==
    LET all == [c \in 1..Len(d.columns) |-> d.columns[c]]
    IN  SelectSeq(all, LAMBDA col : col.dtype = "datetime64")
        \o SelectSeq(all, LAMBDA col : col.dtype # "datetime64" /\ BearsDates(d, col))

\* the stated deduction of a qualifying column: none without a valid date
StatedDeduction(col, now) ==
    LET days == now - Figure(col, "latest", 0)
    IN  IF valid_dates(col) = 0 THEN 0
        ELSE IF days > 365 THEN 20
        ELSE IF days > 90 THEN 10
        ELSE 0

\* C18: when a date column qualifies, the Timeliness score is 100 minus the
\* deductions (20 beyond 365 days since the latest date, else 10 beyond 90,
\* else 0) of the first three qualifying columns only, so it is never below
\* 40; the status is pass from 80, warning from 60, else fail.
C18_TimelinessScore ==
    (result.dimension = "Timeliness" /\ QualifyingDateColumns(df) # <<>>) =>
        LET cols   == QualifyingDateColumns(df)
            first3 == SubSeq(cols, 1, Min(3, Len(cols)))
            stated == 100 - SumSeq([c \in 1..Len(first3) |->
                                       StatedDeduction(first3[c], clock)])
        IN  /\ result.score = Some(stated * 100)
            /\ ValueOf(result.score) >= 4000
            /\ result.status = IF ValueOf(result.score) >= 8000 THEN "pass"
                               ELSE IF ValueOf(result.score) >= 6000 THEN "warning"
                               ELSE "fail"

\* more than three qualifying columns, each more than 365 days old: three
\* deductions, score 40, status fail
C18_Witness ==
    /\ result.dimension = "Timeliness"
    /\ Len(QualifyingDateColumns(df)) > 3
    /\ \A c \in 1..Len(QualifyingDateColumns(df)) :
          StatedDeduction(QualifyingDateColumns(df)[c], clock) = 20
    /\ result.score = Some(4000)
    /\ result.status = "fail"


\* the entries of an Accuracy result r with the given status
AccuracyEntries(r, status) ==
    {i \in 1..Len(r.outlier_analysis) : r.outlier_analysis[i].status = status}

\* the numeric columns of d with at least 10 non-null values, by position
AnalysedNumeric(d) ==
    {c \in 1..Len(d.columns) : /\ d.columns[c].dtype \in {"int64", "float64"}
                               /\ notna_sum(d.columns[c]) >= 10}

\* C19: measure_accuracy skips numeric columns with fewer than 10 non-null
\* values (no detail entry), gives every other numeric column one entry whose
\* status is fail above 5% outliers, warning above 2% and pass otherwise, and
\* scores max(0, 100 - 5 x fail entries - 2 x warning entries); the overall
\* status is pass from 85, warning from 70, else fail.
C19_AccuracyPenalties ==
    result.dimension = "Accuracy" =>
        LET fails    == Cardinality(AccuracyEntries(result, "fail"))
            warnings == Cardinality(AccuracyEntries(result, "warning"))
        IN  /\ Len(result.outlier_analysis) = Cardinality(AnalysedNumeric(df))
            /\ \A i \in 1..Len(result.outlier_analysis) :
                  \E c \in AnalysedNumeric(df) :
                      LET col == df.columns[c]
                          e   == result.outlier_analysis[i]
                      IN  /\ e.column = col.name
                          /\ e.outlier_count = Figure(col, "outliers", 0)
                          /\ e.status = "fail"
                                <=> e.outlier_count * 100 > 5 * notna_sum(col)
                          /\ e.status = "warning"
                                <=> /\ e.outlier_count * 100 > 2 * notna_sum(col)
                                    /\ e.outlier_count * 100 <= 5 * notna_sum(col)
                          /\ e.status \in {"pass", "warning", "fail"}
            /\ \A i \in 1..Len(result.outlier_analysis) :
                  \A j \in 1..Len(result.outlier_analysis) :
                      result.outlier_analysis[i].column = result.outlier_analysis[j].column
                          => i = j
            /\ result.score = Max(0, 100 - 5 * fails - 2 * warnings) * 100
            /\ result.status = IF result.score >= 8500 THEN "pass"
                               ELSE IF result.score >= 7000 THEN "warning"
                               ELSE "fail"

\* a column of 9 values skipped beside a column with exactly 5% outliers: one
\* entry, status warning, score 98
C19_Witness ==
    /\ result.dimension = "Accuracy"
    /\ Len(df.columns) = 2
    /\ notna_sum(df.columns[1]) = 9
    /\ df.columns[1].dtype = "int64"
    /\ Figure(df.columns[2], "outliers", 0) * 100 = 5 * notna_sum(df.columns[2])
    /\ Len(result.outlier_analysis) = 1
    /\ result.outlier_analysis[1].status = "warning"
    /\ result.score = 9800


\* 100 plus the impacts of the issues a Consistency result r records
ImpactTotal(r) == 100 + SumSeq([i \in 1..Len(r.issues) |-> r.issues[i].impact])

\* pass from 85, warning from 70, else fail, on a score in whole points
StatusOfPoints(points) ==
    IF points >= 85 THEN "pass" ELSE IF points >= 70 THEN "warning" ELSE "fail"

\* C20: the Consistency score is max(0, 100 + the sum of the impacts of the
\* recorded issues), each issue carrying -2 (case), -1 (whitespace), -5 (date
\* format) or -3 (range); issues_found is the number of recorded issues; the
\* status is pass from 85, warning from 70, else fail, and is the same on
\* the floored and on the unfloored score.
C20_ConsistencyScore ==
    result.dimension = "Consistency" =>
        /\ \A i \in 1..Len(result.issues) :
              result.issues[i].impact =
                 CASE result.issues[i].issue = "Case inconsistency detected" -> -2
                   [] result.issues[i].issue = "Whitespace inconsistency"    -> -1
                   [] result.issues[i].issue = "Date format inconsistency"   -> -5
                   [] result.issues[i].issue = "Range inconsistency"         -> -3
                   [] OTHER                                                  -> 0
        /\ result.score = Max(0, ImpactTotal(result)) * 100
        /\ result.issues_found = Len(result.issues)
        /\ result.status = StatusOfPoints(ImpactTotal(result))
        /\ result.status = StatusOfPoints(Max(0, ImpactTotal(result)))

\* issues whose impacts sum below -100: the score is floored at 0 and the
\* status is fail
C20_Witness ==
    /\ result.dimension = "Consistency"
    /\ ImpactTotal(result) < 0
    /\ result.score = 0
    /\ result.status = "fail"
    /\ result.issues_found = Len(result.issues)
    /\ \E i \in 1..Len(result.issues) : result.issues[i].impact = -5


\* the numeric columns of d by position in the dataset
NumericPositions(d) ==
    {c \in 1..Len(d.columns) : d.columns[c].dtype \in {"int64", "float64"}}

\* the correlation of the numeric columns at dataset positions a < b
CorrelationOf(d, a, b) ==
    LET rank(c) == Cardinality({x \in NumericPositions(d) : x <= c})
    IN  corr_at(d, rank(a), rank(b))

\* the unordered pairs of numeric columns with |correlation| >= 0.7
HighPairs(d) ==
    {p \in NumericPositions(d) \X NumericPositions(d) :
        p[1] < p[2] /\ Abs(CorrelationOf(d, p[1], p[2])) >= 70000}

\* the numeric columns with variance < 0.01
LowVariance(d) ==
    {c \in NumericPositions(d) : Figure(d.columns[c], "variance", 1000) < 10}

\* C21: the ML-readiness score is max(0, 100 - 3 x reported pairs - 5 x
\* numeric columns with variance < 0.01 - 10 x severely imbalanced candidate
\* targets); status ready from 80, needs_improvement from 60, else not_ready;
\* the reported pairs are the unordered numeric pairs with |correlation| >=
\* 0.7, each once, tagged multicollinearity iff |correlation| >= 0.9.
C21_MlReadinessScore ==
    result.dimension = "ML Readiness" =>
        LET pairs  == result.high_correlations
            severe == {i \in 1..Len(result.class_balance_analysis) :
                         result.class_balance_analysis[i].status = "severely_imbalanced"}
            points == Max(0, 100 - 3 * Len(pairs) - 5 * Cardinality(LowVariance(df))
                               - 10 * Cardinality(severe))
        IN  /\ result.score = points * 100
            /\ result.status = IF points >= 80 THEN "ready"
                               ELSE IF points >= 60 THEN "needs_improvement"
                               ELSE "not_ready"
            /\ Len(result.low_variance_features) = Cardinality(LowVariance(df))
            /\ Len(pairs) = Cardinality(HighPairs(df))
            /\ \A p \in HighPairs(df) :
                  \E i \in 1..Len(pairs) :
                      /\ pairs[i].column1 = df.columns[p[1]].name
                      /\ pairs[i].column2 = df.columns[p[2]].name
                      /\ pairs[i].risk = "multicollinearity"
                            <=> Abs(CorrelationOf(df, p[1], p[2])) >= 90000
                      /\ pairs[i].risk \in {"multicollinearity", "high_correlation"}
            /\ \A i \in 1..Len(pairs) : \A j \in 1..Len(pairs) :
                  {pairs[i].column1, pairs[i].column2}
                      = {pairs[j].column1, pairs[j].column2} => i = j

\* two numeric columns correlated at -0.9, one of them near-constant: one
\* pair tagged multicollinearity, score 100 - 3 - 5
C21_Witness ==
    /\ result.dimension = "ML Readiness"
    /\ Len(result.high_correlations) = 1
    /\ result.high_correlations[1].risk = "multicollinearity"
    /\ result.high_correlations[1].correlation = -9000
    /\ Cardinality(LowVariance(df)) = 1
    /\ result.score = 9200
    /\ result.status = "ready"


\* the stated status of a column with n non-null values among rows rows (a
\* share over no rows counts as zero)
StatedColumnStatus(n, rows) ==
    IF rows > 0 /\ n * 100 >= 95 * rows THEN "pass"
    ELSE IF rows > 0 /\ n * 100 >= 80 * rows THEN "warning"
    ELSE "fail"

\* C22: in the Completeness result every column has one entry whose status is
\* pass from 95% non-null, warning from 80%, else fail; column_details is in
\* ascending order of completeness_ratio (worst first); and
\* columns_below_threshold is the number of entries with status fail.
C22_CompletenessDetails ==
    result.dimension = "Completeness" =>
        LET details == result.column_details
        IN  /\ Len(details) = Len(df.columns)
            /\ \A c \in 1..Len(df.columns) :
                  \E i \in 1..Len(details) :
                      /\ details[i].column = df.columns[c].name
                      /\ details[i].non_null_count = notna_sum(df.columns[c])
                      /\ details[i].status =
                            StatedColumnStatus(notna_sum(df.columns[c]), len_df(df))
            /\ \A i \in 1..Len(details) : \A j \in 1..Len(details) :
                  i < j => details[i].completeness_ratio <= details[j].completeness_ratio
            /\ result.columns_below_threshold =
                  Cardinality({i \in 1..Len(details) : details[i].status = "fail"})

\* the second column of the dataset is the worse one and is listed first: 79%
\* (fail) before 94% (warning), one column below threshold
C22_Witness ==
    /\ result.dimension = "Completeness"
    /\ Len(df.columns) = 2
    /\ len_df(df) = 100
    /\ notna_sum(df.columns[1]) = 94
    /\ notna_sum(df.columns[2]) = 79
    /\ result.column_details[1].column = df.columns[2].name
    /\ result.column_details[1].status = "fail"
    /\ result.column_details[2].status = "warning"
    /\ result.columns_below_threshold = 1


\* the columns of d, by position, that are almost unique and complete:
\* distinct non-null values / non-null values > 0.95 and no missing value
AlmostUniqueComplete(d) ==
    {c \in 1..Len(d.columns) :
        /\ notna_sum(d.columns[c]) > 0
        /\ nunique(d.columns[c]) * 100 > 95 * notna_sum(d.columns[c])
        /\ notna_sum(d.columns[c]) = len_df(d)}

\* C23: measure_uniqueness flags a column as a potential key iff its
\* cardinality ratio is strictly greater than 0.95 and its non-null count is
\* the row count; potential_key_columns lists exactly the flagged columns, so
\* no column with a missing value is listed.
C23_PotentialKeys ==
    result.dimension = "Uniqueness" =>
        /\ Len(result.column_cardinality) = Len(df.columns)
        /\ \A c \in 1..Len(df.columns) :
              /\ result.column_cardinality[c].column = df.columns[c].name
              /\ result.column_cardinality[c].is_potential_key
                    <=> c \in AlmostUniqueComplete(df)
        /\ {result.potential_key_columns[i] : i \in 1..Len(result.potential_key_columns)}
              = {df.columns[c].name : c \in AlmostUniqueComplete(df)}
        /\ Len(result.potential_key_columns) = Cardinality(AlmostUniqueComplete(df))
        /\ \A c \in 1..Len(df.columns) :
              notna_sum(df.columns[c]) < len_df(df) =>
                  \A i \in 1..Len(result.potential_key_columns) :
                      result.potential_key_columns[i] # df.columns[c].name

\* a column of 99 distinct values with one missing cell beside a complete
\* column of 96 distinct values: only the second is listed
C23_Witness ==
    /\ result.dimension = "Uniqueness"
    /\ Len(df.columns) = 2
    /\ len_df(df) = 100
    /\ notna_sum(df.columns[1]) = 99 /\ nunique(df.columns[1]) = 99
    /\ notna_sum(df.columns[2]) = 100 /\ nunique(df.columns[2]) = 96
    /\ result.potential_key_columns = <<df.columns[2].name>>


\* the grade the step function assigns to a score given in tenths of a point
GradeOfTenths(tenths) ==
    IF tenths >= 900 THEN "A"
    ELSE IF tenths >= 800 THEN "B"
    ELSE IF tenths >= 700 THEN "C"
    ELSE IF tenths >= 600 THEN "D"
    ELSE "F"

\* C24: the grade of the quality_score block is the grade the step function
\* assigns to the reported overall_score, the value rounded to one decimal:
\* no block shows a score on one side of a grade boundary with the grade of
\* the other side.
C24_GradeOfReportedScore ==
    result.dimension = "Overall" => result.grade = GradeOfTenths(result.overall_score)


\* C25: for a classification or regression task the three highest-ranked
\* recommendations are xgboost, lightgbm and catboost in some order, whatever
\* the data profile: no other model enters the top three, even when it ties
\* a boosting model on score.
C25_TopThreeBoosting ==
    (/\ reply.type = "recommendations"
     /\ reply.top_n >= 3
     /\ recommender.data_profile.task_type \in {"classification", "regression"}) =>
        /\ Len(reply.recommendations) >= 3
        /\ reply.top_n = 3 => Len(reply.recommendations) = 3
        /\ {reply.recommendations[i].id : i \in 1..3} = {"xgboost", "lightgbm", "catboost"}

\* a small classification dataset on which logistic_regression scores 60, as
\* much as the third of the reply, and stays out of the top three
C25_Witness ==
    /\ reply.type = "recommendations"
    /\ reply.top_n = 3
    /\ recommender.data_profile.task_type = "classification"
    /\ _score_model(recommender.data_profile, "logistic_regression") = 60
    /\ reply.recommendations[3].score = 60
    /\ {reply.recommendations[i].id : i \in 1..3} = {"xgboost", "lightgbm", "catboost"}


\* the score of the Dimension Result that report r includes under key k
ReportedScore(r, k) == IF k = "timeliness" THEN ValueOf(r.timeliness.score) ELSE r[k].score

\* C26: in a full report every score listed in quality_score.dimension_scores
\* is, rounded to one decimal, the score of the Dimension Result the same
\* report includes, and timeliness is listed iff the report's Timeliness
\* score is not None, although the measurers run twice and measure_timeliness
\* reads the current time on each run.
C26_ReportConsistent ==
    result.dimension = "Report" =>
        LET listed == result.quality_score.dimension_scores
        IN  /\ \A i \in 1..Len(listed) :
                  /\ listed[i].key = "timeliness" => result.timeliness.score # None
                  /\ listed[i].score = RoundHalfEven(ReportedScore(result, listed[i].key), 10)
            /\ {listed[i].key : i \in 1..Len(listed)} =
                  {"completeness", "uniqueness", "validity", "consistency", "accuracy"}
                  \cup (IF result.timeliness.score # None THEN {"timeliness"} ELSE {})


\* C27: for a source id stored by a successful upload, the dataset handed to
\* the recommender is the uploaded dataset: the profile's row count is the
\* rows of the stored report's overview, and its columns are typed as they
\* were classified at analysis time.
C27_StoredDatasetReused ==
    (/\ reply.type = "analysis"
     /\ request # NoRequest
     /\ request.source_id \in 1..Len(_temp_storage)) =>
        LET overview == _temp_storage[request.source_id].overview
        IN  /\ reply.data_profile.rows = overview.rows
            /\ reply.data_profile.columns = overview.columns
            /\ reply.data_profile.numeric_columns = overview.column_types.numeric
            /\ reply.data_profile.categorical_columns = overview.column_types.categorical
            /\ reply.data_profile.datetime_columns = overview.column_types.datetime


\* the entries a full report holds besides filename, generated_at and
\* sample_data
ReportEntries ==
    {"status", "overview", "quality_score", "completeness", "uniqueness", "validity",
     "consistency", "accuracy", "timeliness", "ml_readiness", "column_profiles"}

\* C28: on a dataset with at least one column and no row, generate_full_report
\* completes without a division fault: the upload is not answered as a failed
\* analysis, and the stored report has status "success" with the overview,
\* the seven Dimension Results and the column profiles.
C28_ZeroRowReport ==
    (len_df(df) = 0 /\ Len(df.columns) > 0) =>
        /\ reply.type = "error" => reply.status # "Bad Request"
        /\ reply.type = "upload" =>
              /\ reply.source_id \in 1..Len(_temp_storage)
              /\ _temp_storage[reply.source_id].status = "success"
              /\ ReportEntries \subseteq DOMAIN _temp_storage[reply.source_id]


\* the phrases of the justifications as the heuristics word them
HeuristicPhrases ==
    {"handles class imbalance well", "handles missing values natively",
     "industry standard with best accuracy", "optimized for large datasets",
     "fastest training time", "memory efficient",
     "native handling for your categorical columns", "no manual encoding needed",
     "robust and rarely overfits", "provides feature importance",
     "good for understanding data", "fully interpretable coefficients",
     "fast baseline for comparison", "probabilistic predictions",
     "simple and fully explainable", "good baseline model",
     "easy to explain to stakeholders"}

\* a justification: one to three heuristic phrases, the first with its first
\* letter in upper case
IsJustification(why) ==
    /\ Len(why) \in 1..3
    /\ why[1] \notin HeuristicPhrases
    /\ \E p \in HeuristicPhrases : why[1] = capitalize(p)
    /\ \A i \in 2..Len(why) : why[i] \in HeuristicPhrases

\* C29: every entry get_recommendations returns, for any top_n and any data
\* profile, carries a non-empty justification of one to three heuristic
\* phrases joined by commas, the first letter in upper case.
C29_Justified ==
    reply.type = "recommendations" =>
        \A i \in 1..Len(reply.recommendations) :
            IsJustification(reply.recommendations[i].why)


\* a history as the claim describes it: at most 10 messages, an even number
\* of them, user and assistant taking turns from a user message on
WellFormedHistory(history) ==
    /\ Len(history) <= 10
    /\ Len(history) % 2 = 0
    /\ \A i \in 1..Len(history) :
           history[i].role = (IF i % 2 = 1 THEN "user" ELSE "assistant")

\* every conversation other than c is stored after the step as before it
OthersUntouched(c) ==
    /\ (DOMAIN _conversations') \ {c} = (DOMAIN _conversations) \ {c}
    /\ \A o \in (DOMAIN _conversations) \ {c} :
           _conversations'[o] = _conversations[o]

\* a step of the two handlers touches its own conversation only: that of
\* the request's id ("default" when none is given) for send_message, the
\* named one, which is gone afterwards, for clear_history
OwnConversationOnly ==
    /\ request'.op = "send_message" =>
           /\ OthersUntouched(IF request'.conversation_id = None
                              THEN "default"
                              ELSE IF request'.conversation_id = Some("")
                                   THEN "default"
                                   ELSE request'.conversation_id[1])
    /\ request'.op = "clear_history" =>
           /\ OthersUntouched(request'.conversation_id[1])
           /\ request'.conversation_id[1] \notin DOMAIN _conversations'

\* C30: after any sequence of send_message and clear_history calls every
\* stored history has at most 10 messages, an even number of them, and
\* roles alternating from a user message on; send_message changes only the
\* history of its own conversation id ("default" when none is given) and
\* clear_history removes only the named conversation.
C30_Histories ==
    /\ [](\A c \in DOMAIN _conversations : WellFormedHistory(_conversations[c]))
    /\ [][OwnConversationOnly]_vars

\* a sixth message pair arrived in a full conversation while another
\* conversation is stored: the oldest pair was dropped
C30_Witness ==
    /\ {"default", "a"} \subseteq DOMAIN _conversations
    /\ request.op = "send_message"
    /\ request.conversation_id = None
    /\ Len(_conversations["default"]) = 10
    /\ _conversations["default"][1].content = "help"
    /\ _conversations["default"][9].content = "hi"
    /\ Len(_conversations["a"]) = 2

====
